---- MODULE Spec2Model ----
(***************************************************************************)
(* Model of the geometric-algebra code generator (codegen/src/algebra.rs   *)
(* and the start of codegen/src/main.rs): basis blades, the geometric      *)
(* product, duals, the canonical order, the involutions and the seven      *)
(* named products.                                                         *)
(*                                                                         *)
(* A BasisElement is a record [scalar, index]; index is a u16 bit mask.    *)
(* A GeometricAlgebra is its generator_squares, a sequence: its element    *)
(* i + 1 is the square of generator i (Rust slices count from 0).          *)
(***************************************************************************)
EXTENDS Integers, Sequences, FiniteSets, TLC

\* Largest number of generators of the algebras explored.
MaxGen == 3
\* Largest number of generators explored with three operands at once.
MaxTripleGen == 2
\* Longest chain of Involution::negated / Involution::dual calls explored.
MaxApply == 2

\* BasisElementIndex = u16
IndexBits == 16
IndexMax == 2^IndexBits - 1

\* The most generators of an algebra a blade name is parsed against.
MaxParseGen == 4
\* The most characters of a blade name.
MaxTokenLen == 4
\* The most calls of MultiVectorClassRegistry::register in a row.
MaxRegister == 3
\* The classes laid out by the Rust renderer: groups, blades per group, generators.
MaxGroups == 3
MaxGroup == 5
LayoutGen == 5
\* The most parameters of an operation definition handed to the renderers.
MaxParameters == 3

\* ------------------------------------------------------------ bit operations

BitAt(x, i) == (x \div 2^i) % 2

RECURSIVE BitAnd(_, _)
BitAnd(x, y) ==
    IF x = 0 \/ y = 0 THEN 0
    ELSE (x % 2) * (y % 2) + 2 * BitAnd(x \div 2, y \div 2)

RECURSIVE BitOr(_, _)
BitOr(x, y) ==
    IF x = 0 THEN y
    ELSE IF y = 0 THEN x
    ELSE (IF x % 2 = 1 \/ y % 2 = 1 THEN 1 ELSE 0) + 2 * BitOr(x \div 2, y \div 2)

RECURSIVE BitXor(_, _)
BitXor(x, y) ==
    IF x = 0 THEN y
    ELSE IF y = 0 THEN x
    ELSE ((x + y) % 2) + 2 * BitXor(x \div 2, y \div 2)

\* !x on a u16
BitNot(x) == IndexMax - x

\* x << k on a u16, k < 16: the k highest bits are shifted out
Shl(x, k) == (x % 2^(IndexBits - k)) * 2^k

\* u16::count_ones
RECURSIVE count_ones(_)
count_ones(x) == IF x = 0 THEN 0 ELSE (x % 2) + count_ones(x \div 2)

\* u16::trailing_zeros: 16 for the value 0
RECURSIVE trailing_zeros(_)
trailing_zeros(x) ==
    IF x = 0 THEN IndexBits
    ELSE IF x % 2 = 1 THEN 0
    ELSE 1 + trailing_zeros(x \div 2)

\* ------------------------------------------------------------ BasisElement

\* 1 << n on a usize (n stays far below the 64 bits of a usize)
basis_size(algebra) == 2^Len(algebra)

from_index(index) == [scalar |-> 1, index |-> index]

grade(e) == count_ones(e.index)

\* The bit indices set in the element, ascending (an iterator over 0..16).
component_bits(e) ==
    SelectSeq([k \in 1..IndexBits |-> k - 1], LAMBDA i : BitAt(e.index, i) # 0)

\* commutations_step with the bit left out of b: b is passed on unchanged.
commutations_step_keep_b(acc, index) ==
    LET hurdles_a == BitAnd(acc[2], Shl(IndexMax, index + 1))
        hurdles_b == BitAnd(acc[3], Shl(1, index) - 1)
    IN  << acc[1] + grade(from_index(BitOr(hurdles_a, hurdles_b))),
           BitAnd(acc[2], BitNot(Shl(1, index))),
           acc[3] >>

\* One step of the fold of product: acc is <<commutations, a, b>>.
commutations_step(acc, index) ==
    LET hurdles_a == BitAnd(acc[2], Shl(IndexMax, index + 1))
        hurdles_b == BitAnd(acc[3], Shl(1, index) - 1)
    IN  << acc[1] + grade(from_index(BitOr(hurdles_a, hurdles_b))),
           BitAnd(acc[2], BitNot(Shl(1, index))),
           BitXor(acc[3], Shl(1, index)) >>

RECURSIVE commutations_fold(_, _, _)
commutations_fold(bits, k, acc) ==
    IF k > Len(bits) THEN acc
    ELSE commutations_fold(bits, k + 1, commutations_step(acc, bits[k]))

\* squares_fold reading the generator squares from the wrong end.
RECURSIVE squares_fold_reversed(_, _, _, _)
squares_fold_reversed(bits, k, acc, algebra) ==
    IF k > Len(bits) THEN acc
    ELSE squares_fold_reversed(bits, k + 1, acc * algebra[Len(algebra) - bits[k]], algebra)

\* The scalar fold of product over the bits set in both factors.
RECURSIVE squares_fold(_, _, _, _)
squares_fold(bits, k, acc, algebra) ==
    IF k > Len(bits) THEN acc
    ELSE squares_fold(bits, k + 1, acc * algebra[bits[k] + 1], algebra)

product(a, b, algebra) ==
    LET commutations == commutations_fold(component_bits(a), 1, <<0, a.index, b.index>>)
    IN  [scalar |-> squares_fold(component_bits(from_index(BitAnd(a.index, b.index))), 1,
                                 a.scalar * b.scalar * (IF commutations[1] % 2 = 0 THEN 1 ELSE -1),
                                 algebra),
         index  |-> BitXor(a.index, b.index)]

\* dual without the orientation sign: only the index is complemented.
dual_keep_scalar(e, algebra) ==
    [scalar |-> e.scalar,
     index  |-> (basis_size(algebra) % 2^IndexBits) - 1 - e.index]

dual(e, algebra) ==
    LET result == [scalar |-> e.scalar,
                   index  |-> (basis_size(algebra) % 2^IndexBits) - 1 - e.index]
    IN  [result EXCEPT !.scalar = result.scalar * product(e, result, algebra).scalar]

\* cmp with the tie between equal grades decided the other way round.
cmp_tie_swapped(self, other) ==
    IF grade(self) < grade(other) THEN "Less"
    ELSE IF grade(self) > grade(other) THEN "Greater"
    ELSE LET a_without_b == BitAnd(self.index, BitNot(other.index))
             b_without_a == BitAnd(other.index, BitNot(self.index))
         IN  IF trailing_zeros(a_without_b) < trailing_zeros(b_without_a)
             THEN "Greater" ELSE "Less"

cmp(self, other) ==
    IF grade(self) < grade(other) THEN "Less"
    ELSE IF grade(self) > grade(other) THEN "Greater"
    ELSE LET a_without_b == BitAnd(self.index, BitNot(other.index))
             b_without_a == BitAnd(other.index, BitNot(self.index))
         IN  IF trailing_zeros(a_without_b) < trailing_zeros(b_without_a)
             THEN "Less" ELSE "Greater"

\* The digits of char::to_digit(16) and of the {:X} format.
HexDigits == << "0", "1", "2", "3", "4", "5", "6", "7", "8", "9",
                "a", "b", "c", "d", "e", "f" >>
HexDigitsUpper == << "0", "1", "2", "3", "4", "5", "6", "7", "8", "9",
                     "A", "B", "C", "D", "E", "F" >>

\* impl Display for BasisElement, as a sequence of characters: the sign, then
\* "0" for a zero scalar, "1" for the scalar blade, otherwise "e" and the
\* generator numbers in upper-case hexadecimal; padded on the left to width.
fmt(self, width) ==
    LET bits == component_bits(self)
        name == << "e" >> \o [k \in 1..Len(bits) |-> HexDigitsUpper[bits[k] + 1]]
        buf == IF self.scalar = 0 THEN << "0" >>
               ELSE IF self.index = 0 THEN << "1" >>
               ELSE name
        text == IF self.scalar >= 0 THEN buf ELSE << "-" >> \o buf
    IN  [k \in 1..(IF width > Len(text) THEN width - Len(text) ELSE 0) |-> " "] \o text

\* What a failed unwrap or assertion leaves instead of a blade: the run aborts.
Panic == [panic |-> TRUE]

\* char::to_digit(16) as parse uses it: the value of a hexadecimal digit, and
\* -1 for Option::None.
to_digit(c) ==
    IF \E i \in 1..16 : HexDigits[i] = c \/ HexDigitsUpper[i] = c
    THEN (CHOOSE i \in 1..16 : HexDigits[i] = c \/ HexDigitsUpper[i] = c) - 1
    ELSE -1

\* parse_digits counting the generators from 1: the digit d names bit d - 1.
RECURSIVE parse_digits_from_one(_, _, _)
parse_digits_from_one(generator_indices, acc, algebra) ==
    IF generator_indices = << >> THEN acc
    ELSE LET generator_index == to_digit(Head(generator_indices)) - 1
         IN  IF generator_index < 0 THEN Panic
             ELSE IF ~(generator_index < Len(algebra)) THEN Panic
             ELSE parse_digits_from_one(Tail(generator_indices),
                               product(acc, from_index(Shl(1, generator_index)), algebra),
                               algebra)

\* parse_digits multiplying each generator in from the left.
RECURSIVE parse_digits_prepend(_, _, _)
parse_digits_prepend(generator_indices, acc, algebra) ==
    IF generator_indices = << >> THEN acc
    ELSE LET generator_index == to_digit(Head(generator_indices))
         IN  IF generator_index < 0 THEN Panic
             ELSE IF ~(generator_index < Len(algebra)) THEN Panic
             ELSE parse_digits_prepend(Tail(generator_indices),
                               product(from_index(Shl(1, generator_index)), acc, algebra),
                               algebra)

\* The loop of parse over the characters after the 'e'.
RECURSIVE parse_digits(_, _, _)
parse_digits(generator_indices, acc, algebra) ==
    IF generator_indices = << >> THEN acc
    ELSE LET generator_index == to_digit(Head(generator_indices))
         IN  IF generator_index < 0 THEN Panic
             ELSE IF ~(generator_index < Len(algebra)) THEN Panic
             ELSE parse_digits(Tail(generator_indices),
                               product(acc, from_index(Shl(1, generator_index)), algebra),
                               algebra)

parse_any_prefix(name, algebra) ==
    LET negative == name # << >> /\ Head(name) = "-"
        rest == IF negative THEN Tail(name) ELSE name
        start == [scalar |-> IF negative THEN -1 ELSE from_index(0).scalar,
                  index |-> from_index(0).index]
    IN  IF rest = << "1" >> THEN start
        ELSE IF rest = << >> THEN Panic
        ELSE parse_digits(Tail(rest), start, algebra)

\* BasisElement::parse: name is the sequence of the characters of the token.
parse(name, algebra) ==
    LET negative == name # << >> /\ Head(name) = "-"
        rest == IF negative THEN Tail(name) ELSE name
        start == [scalar |-> IF negative THEN -1 ELSE from_index(0).scalar,
                  index |-> from_index(0).index]
    IN  IF rest = << "1" >> THEN start
        ELSE IF rest = << >> THEN Panic
        ELSE IF Head(rest) # "e" THEN Panic
        ELSE parse_digits(Tail(rest), start, algebra)

\* ------------------------------------------------------------ GeometricAlgebra

\* The element basis() yields for one index.
basis_element(index, algebra) ==
    LET element == from_index(index)
        d == dual(element, algebra)
    IN  IF cmp(d, element) = "Less"
        THEN [element EXCEPT !.scalar = dual(element, algebra).scalar]
        ELSE element

\* The range 0..(basis_size() as BasisElementIndex), mapped in ascending order.
basis(algebra) ==
    [k \in 1..(basis_size(algebra) % 2^IndexBits) |-> basis_element(k - 1, algebra)]

\* slice::sort of at most 20 elements: a stable insertion sort by cmp.
RECURSIVE insert_tail(_, _)
insert_tail(sorted, x) ==
    IF Len(sorted) = 0 THEN <<x>>
    ELSE IF cmp(x, sorted[Len(sorted)]) = "Less"
         THEN Append(insert_tail(SubSeq(sorted, 1, Len(sorted) - 1), x), sorted[Len(sorted)])
         ELSE Append(sorted, x)

RECURSIVE sort(_, _)
sort(elements, k) ==
    IF k = 0 THEN <<>>
    ELSE insert_tail(sort(elements, k - 1), elements[k])

sorted_basis(algebra) == sort(basis(algebra), Len(basis(algebra)))

\* ------------------------------------------------------------ Involution

\* The grades a u16 index can have.
Grades == 0..IndexBits

\* conjugation_grades with its offset off by one.
conjugation_grades_offset == [g \in Grades |-> (g + 2) % 4 < 2]

\* The grade_negation closures of Involution::involutions, as functions of the grade.
neg_grades == [g \in Grades |-> TRUE]
automorphism_grades == [g \in Grades |-> g % 2 = 1]
reversal_grades == [g \in Grades |-> g % 4 >= 2]
conjugation_grades == [g \in Grades |-> (g + 3) % 4 < 2]

\* An Involution is its terms: a sequence of <<key, value>> pairs.
identity(algebra) ==
    [k \in 1..Len(basis(algebra)) |-> <<basis(algebra)[k], basis(algebra)[k]>>]

\* negated storing the sign of the grade instead of multiplying by it.
negated_assign(self, grade_negation) ==
    [k \in 1..Len(self) |->
        LET value == self[k][2]
        IN  << self[k][1],
               [value EXCEPT !.scalar = IF grade_negation[grade(value)] THEN -1 ELSE 1] >>]

negated(self, grade_negation) ==
    [k \in 1..Len(self) |->
        LET value == self[k][2]
        IN  << self[k][1],
               [value EXCEPT !.scalar = value.scalar *
                                 (IF grade_negation[grade(value)] THEN -1 ELSE 1)] >>]

Involution_dual(self, algebra) ==
    [k \in 1..Len(self) |-> << self[k][1], dual(self[k][2], algebra) >>]

\* Involution::involutions: a sequence of <<name, terms>>.
Involution_involutions(algebra) ==
    LET involution == identity(algebra)
    IN  << <<"Neg", negated(involution, neg_grades)>>,
           <<"Automorphism", negated(involution, automorphism_grades)>>,
           <<"Reversal", negated(involution, reversal_grades)>>,
           <<"Conjugation", negated(involution, conjugation_grades)>>,
           <<"Dual", Involution_dual(involution, algebra)>> >>

\* ------------------------------------------------------------ Product

\* Product::new without the filter: the zero-scalar terms are kept.
Product_new_unfiltered(a, b, algebra) ==
    [k \in 1..(Len(a) * Len(b)) |->
        LET fa == a[((k - 1) \div Len(b)) + 1]
            fb == b[((k - 1) % Len(b)) + 1]
        IN  [product  |-> product(fa, fb, algebra),
             factor_a |-> fa,
             factor_b |-> fb]]

\* A Product is its terms: a sequence of ProductTerm records, a-major.
Product_new(a, b, algebra) ==
    LET all == [k \in 1..(Len(a) * Len(b)) |->
                   LET fa == a[((k - 1) \div Len(b)) + 1]
                       fb == b[((k - 1) % Len(b)) + 1]
                   IN  [product  |-> product(fa, fb, algebra),
                        factor_a |-> fa,
                        factor_b |-> fb]]
    IN  SelectSeq(all, LAMBDA term : term.product.scalar # 0)

projected(self, grade_projection) ==
    SelectSeq(self, LAMBDA term :
        grade_projection[grade(term.factor_a), grade(term.factor_b), grade(term.product)])

\* Product::dual dualizing the two factors and leaving the product as it is.
Product_dual_factors_only(self, algebra) ==
    [k \in 1..Len(self) |->
        [product  |-> self[k].product,
         factor_a |-> dual(self[k].factor_a, algebra),
         factor_b |-> dual(self[k].factor_b, algebra)]]

Product_dual(self, algebra) ==
    [k \in 1..Len(self) |->
        [product  |-> dual(self[k].product, algebra),
         factor_a |-> dual(self[k].factor_a, algebra),
         factor_b |-> dual(self[k].factor_b, algebra)]]

\* unsigned_abs of an isize
unsigned_abs(x) == IF x < 0 THEN -x ELSE x

\* The grade_projection closures of Product::products, as functions of the grades.
outer_grades == [r \in Grades, s \in Grades, t \in Grades |-> t = r + s]
\* inner_grades without the absolute value.
inner_grades_signed == [r \in Grades, s \in Grades, t \in Grades |-> t = r - s]
inner_grades == [r \in Grades, s \in Grades, t \in Grades |-> t = unsigned_abs(r - s)]
left_contraction_grades == [r \in Grades, s \in Grades, t \in Grades |-> t = s - r]
right_contraction_grades == [r \in Grades, s \in Grades, t \in Grades |-> t = r - s]
scalar_grades == [r \in Grades, s \in Grades, t \in Grades |-> t = 0]

\* Product::products: a sequence of <<name, terms>>.
Product_products(algebra) ==
    LET b == basis(algebra)
        p == Product_new(b, b, algebra)
    IN  << <<"GeometricProduct", p>>,
           <<"RegressiveProduct", Product_dual(projected(p, outer_grades), algebra)>>,
           <<"OuterProduct", projected(p, outer_grades)>>,
           <<"InnerProduct", projected(p, inner_grades)>>,
           <<"LeftContraction", projected(p, left_contraction_grades)>>,
           <<"RightContraction", projected(p, right_contraction_grades)>>,
           <<"ScalarProduct", projected(p, scalar_grades)>> >>

\* ------------------------------------------------------------ MultiVectorClassRegistry

\* Option::None of MultiVectorClassRegistry::get.
NotFound == [not_found |-> TRUE]

\* The blades of all groups of a class, in order.
RECURSIVE flatten(_)
flatten(groups) ==
    IF groups = << >> THEN << >> ELSE Head(groups) \o flatten(Tail(groups))

\* MultiVectorClass::signature: the flattened sequence of the blade indices.
signature(class) ==
    [k \in 1..Len(flatten(class.grouped_basis)) |-> flatten(class.grouped_basis)[k].index]

\* HashMap::insert: the value of an existing key is replaced.
insert(map, key, value) ==
    [k \in DOMAIN map \cup {key} |-> IF k = key THEN value ELSE map[k]]

\* register, on the map alone, leaving the index of a signature already present.
register_index_first(class, list, map) ==
    IF signature(class) \in DOMAIN map THEN map
    ELSE insert(map, signature(class), Len(list))

\* MultiVectorClassRegistry::register, on the map: the class is indexed by
\* its signature at the position it is about to take (positions count from 0).
register_index(class, list, map) == insert(map, signature(class), Len(list))

\* MultiVectorClassRegistry::register, on the list: the class is appended.
register_classes(class, list) == Append(list, class)

\* MultiVectorClassRegistry::get.
get(sig, list, map) ==
    IF sig \in DOMAIN map THEN list[map[sig] + 1] ELSE NotFound

\* ------------------------------------------------------------ state

VARIABLES
    generator_squares,  \* the algebra
    pc,                 \* the position of the run
    involutions,        \* main: Involution::involutions(&algebra)
    products,           \* main: Product::products(&algebra)
    main_basis,         \* main: algebra.sorted_basis()
    cayley,             \* main: the lines of the printed Cayley table
    factor_a, factor_b, factor_c,  \* operands handed to BasisElement::product
    result,             \* BasisElement::product(factor_a, factor_b)
    result_left,        \* product(product(factor_a, factor_b), factor_c)
    result_right,       \* product(factor_a, product(factor_b, factor_c))
    involution,         \* an Involution being transformed
    applied,            \* the names of the transformations applied to it
    token,              \* a blade name handed to BasisElement::parse
    parsed,             \* what BasisElement::parse did with it
    classes,            \* registry.classes
    index_by_signature, \* registry.index_by_signature
    registered,         \* the classes handed to register so far
    config,             \* main: the class descriptors of the configuration
    oracle,             \* what compile derives in this run
    next_class,         \* main: how many classes the derivation pass has done
    trait_implementations,  \* main: the table of the classes done
    emitted,            \* the operation definitions handed to Emitter::emit
    written,            \* the keys inserted into the tables, in order
    visited,            \* the loop iterations of the pass, in order
    ordering,           \* what BasisElement::cmp returned for the operands
    wide,               \* what basis, dual and product did on a 16-bit index
    definition,         \* rust: the layout of an emitted class definition
    rendering           \* what emit_code returned for a node, per target

vars == << generator_squares, pc, involutions, products, main_basis, cayley,
           factor_a, factor_b, factor_c, result, result_left, result_right,
           involution, applied, token, parsed,
           classes, index_by_signature, registered,
           config, oracle, next_class, trait_implementations, emitted, written, visited,
           ordering, wide, definition, rendering >>

\* The metrics explored: each generator squares to -1, 0 or 1.
GeneratorSquares == {-1, 0, 1}
\* The algebras of lo to hi generators.
Metrics(lo, hi) == UNION { [1..m -> GeneratorSquares] : m \in lo..hi }

None == [scalar |-> 0, index |-> 0]

\* The blades of the algebra with a scalar of the given set.
Blades(algebra, scalars) ==
    { [scalar |-> s, index |-> i] : s \in scalars, i \in 0..(basis_size(algebra) - 1) }

InitWith(metrics, at, configs, oracles) ==
    /\ generator_squares \in metrics
    /\ pc = at
    /\ involutions = <<>>
    /\ products = <<>>
    /\ main_basis = <<>>
    /\ cayley = <<>>
    /\ factor_a = None /\ factor_b = None /\ factor_c = None
    /\ result = None /\ result_left = None /\ result_right = None
    /\ involution = <<>>
    /\ applied = <<>>
    /\ token = <<>>
    /\ parsed = None
    /\ classes = <<>>
    /\ index_by_signature = <<>>
    /\ registered = <<>>
    /\ config \in configs
    /\ oracle \in oracles
    /\ next_class = 0
    /\ trait_implementations = <<>>
    /\ emitted = <<>>
    /\ written = <<>>
    /\ visited = <<>>
    /\ ordering = <<>>
    /\ wide = <<>>
    /\ definition = <<>>
    /\ rendering = <<>>

\* The same with no class in the configuration.
InitAt(metrics, at) == InitWith(metrics, at, { << >> }, { << >> })

\* ------------------------------------------------------------ main (Spec)

main_vars == << involutions, products, main_basis, cayley >>
operand_vars == << factor_a, factor_b, factor_c, result, result_left, result_right >>
involution_vars == << involution, applied >>
parse_vars == << token, parsed >>
registry_vars == << classes, index_by_signature, registered >>
pass_vars == << config, oracle, next_class, trait_implementations, emitted, written, visited >>
compare_vars == << ordering >>
wide_vars == << wide >>
output_vars == << definition, rendering >>

ComputeInvolutions ==
    /\ pc = "parsed"
    /\ involutions' = Involution_involutions(generator_squares)
    /\ pc' = "involutions"
    /\ UNCHANGED << generator_squares, products, main_basis, cayley, operand_vars, involution_vars, parse_vars, registry_vars, pass_vars, compare_vars, wide_vars, output_vars >>

ComputeProducts ==
    /\ pc = "involutions"
    /\ products' = Product_products(generator_squares)
    /\ pc' = "products"
    /\ UNCHANGED << generator_squares, involutions, main_basis, cayley, operand_vars, involution_vars, parse_vars, registry_vars, pass_vars, compare_vars, wide_vars, output_vars >>

SortedBasis ==
    /\ pc = "products"
    /\ main_basis' = sorted_basis(generator_squares)
    /\ pc' = "cayley"
    /\ UNCHANGED << generator_squares, involutions, products, cayley, operand_vars, involution_vars, parse_vars, registry_vars, pass_vars, compare_vars, wide_vars, output_vars >>

\* The loops printing the Cayley table: one line per b, one cell per a.
PrintCayley ==
    /\ pc = "cayley"
    /\ cayley' = [b \in 1..Len(main_basis) |->
                    [a \in 1..Len(main_basis) |->
                        fmt(product(main_basis[a], main_basis[b], generator_squares),
                            Len(generator_squares) + 2) \o << " " >>]]
    /\ pc' = "printed"
    /\ UNCHANGED << generator_squares, involutions, products, main_basis, operand_vars, involution_vars, parse_vars, registry_vars, pass_vars, compare_vars, wide_vars, output_vars >>

\* main splits the list of squares at its commas: it names at least one generator.
Init == InitAt(Metrics(1, MaxGen), "parsed")

Next == ComputeInvolutions \/ ComputeProducts \/ SortedBasis \/ PrintCayley

Spec == Init /\ [][Next]_vars

\* ------------------------------------------------------------ BasisElement::product on two operands

OperandScalars == {-1, 0, 1}

Multiply ==
    /\ pc = "operands"
    /\ \E a \in Blades(generator_squares, OperandScalars),
          b \in Blades(generator_squares, OperandScalars) :
          /\ factor_a' = a
          /\ factor_b' = b
          /\ result' = product(a, b, generator_squares)
    /\ pc' = "multiplied"
    /\ UNCHANGED << generator_squares, main_vars, factor_c, result_left, result_right,
                    involution_vars, parse_vars, registry_vars, pass_vars, compare_vars, wide_vars, output_vars >>

InitProduct == InitAt(Metrics(0, MaxGen), "operands")

NextProduct == Multiply

SpecProduct == InitProduct /\ [][NextProduct]_vars

\* ------------------------------------------------------------ BasisElement::product on three operands

UnitScalars == {-1, 1}

MultiplyThree ==
    /\ pc = "operands"
    /\ \E a \in Blades(generator_squares, UnitScalars),
          b \in Blades(generator_squares, UnitScalars),
          c \in Blades(generator_squares, UnitScalars) :
          /\ factor_a' = a
          /\ factor_b' = b
          /\ factor_c' = c
          /\ result' = product(a, b, generator_squares)
          /\ result_left' = product(product(a, b, generator_squares), c, generator_squares)
          /\ result_right' = product(a, product(b, c, generator_squares), generator_squares)
    /\ pc' = "multiplied"
    /\ UNCHANGED << generator_squares, main_vars, involution_vars, parse_vars, registry_vars, pass_vars, compare_vars, wide_vars, output_vars >>

InitTriple == InitAt(Metrics(0, MaxTripleGen), "operands")

NextTriple == MultiplyThree

SpecTriple == InitTriple /\ [][NextTriple]_vars

\* ------------------------------------------------------------ BasisElement::cmp on three operands

\* The algebras explored: cmp reads the indices alone.
UnitMetrics == { [i \in 1..m |-> 1] : m \in 0..MaxGen }

Compare ==
    /\ pc = "operands"
    /\ \E a \in Blades(generator_squares, UnitScalars),
          b \in Blades(generator_squares, UnitScalars),
          c \in Blades(generator_squares, { 1 }) :
          /\ factor_a' = a
          /\ factor_b' = b
          /\ factor_c' = c
          /\ ordering' = [ab |-> cmp(a, b), ba |-> cmp(b, a), bc |-> cmp(b, c),
                          ac |-> cmp(a, c)]
    /\ pc' = "compared"
    /\ UNCHANGED << generator_squares, main_vars, result, result_left, result_right,
                    involution_vars, parse_vars, registry_vars, pass_vars, wide_vars, output_vars >>

InitCompare == InitAt(UnitMetrics, "operands")

NextCompare == Compare

SpecCompare == InitCompare /\ [][NextCompare]_vars

\* ------------------------------------------------------------ Involution::negated / Involution::dual chains

Identity ==
    /\ pc = "algebra"
    /\ involution' = identity(generator_squares)
    /\ applied' = <<>>
    /\ pc' = "involution"
    /\ UNCHANGED << generator_squares, main_vars, operand_vars, parse_vars, registry_vars, pass_vars, compare_vars, wide_vars, output_vars >>

Negate(name, grade_negation) ==
    /\ pc = "involution"
    /\ Len(applied) < MaxApply
    /\ involution' = negated(involution, grade_negation)
    /\ applied' = Append(applied, name)
    /\ UNCHANGED << generator_squares, pc, main_vars, operand_vars, parse_vars, registry_vars, pass_vars, compare_vars, wide_vars, output_vars >>

NegateNeg == Negate("Neg", neg_grades)
NegateAutomorphism == Negate("Automorphism", automorphism_grades)
NegateReversal == Negate("Reversal", reversal_grades)
NegateConjugation == Negate("Conjugation", conjugation_grades)

Dualize ==
    /\ pc = "involution"
    /\ Len(applied) < MaxApply
    /\ involution' = Involution_dual(involution, generator_squares)
    /\ applied' = Append(applied, "Dual")
    /\ UNCHANGED << generator_squares, pc, main_vars, operand_vars, parse_vars, registry_vars, pass_vars, compare_vars, wide_vars, output_vars >>

InitInvolution == InitAt(Metrics(0, MaxGen), "algebra")

NextInvolution ==
    \/ Identity
    \/ NegateNeg
    \/ NegateAutomorphism
    \/ NegateReversal
    \/ NegateConjugation
    \/ Dualize

SpecInvolution == InitInvolution /\ [][NextInvolution]_vars

\* ------------------------------------------------------------ BasisElement::parse on one blade name

\* The characters of the blade names explored: the sign, the digits 1 and 3,
\* the letter e (itself the hexadecimal digit 14) and a letter that is no digit.
Chars == { "-", "1", "3", "e", "g" }
Names == UNION { [1..m -> Chars] : m \in 0..MaxTokenLen }

Parse ==
    /\ pc = "token"
    /\ \E name \in Names :
          /\ token' = name
          /\ parsed' = parse(name, generator_squares)
          /\ pc' = IF parse(name, generator_squares) = Panic THEN "aborted" ELSE "blade"
    /\ UNCHANGED << generator_squares, main_vars, operand_vars, involution_vars, registry_vars, pass_vars, compare_vars, wide_vars, output_vars >>

InitParse == InitAt(Metrics(1, MaxParseGen), "token")

NextParse == Parse

SpecParse == InitParse /\ [][NextParse]_vars

\* ------------------------------------------------------------ main: the classes of the configuration

\* The algebra "G3:1,1,1".
G3 == << 1, 1, 1 >>

\* Class descriptors "name:blade,blade|blade,...", each blade name a
\* sequence of characters: the two classes of the documented example, written
\* with generator digits 1 to 3, the same two with digits 0 to 2, and two
\* classes of the scalar blade alone.
RotorFrom1 == [class_name |-> "Rotor",
               groups |-> << << << "1" >>, << "e", "1", "2" >>, << "e", "1", "3" >>,
                               << "e", "2", "3" >> >> >>]
VectorFrom1 == [class_name |-> "Vector",
                groups |-> << << << "e", "1" >>, << "e", "2" >>, << "e", "3" >> >> >>]
RotorFrom0 == [class_name |-> "Rotor",
               groups |-> << << << "1" >>, << "e", "0", "1" >>, << "e", "0", "2" >>,
                               << "e", "1", "2" >> >> >>]
VectorFrom0 == [class_name |-> "Vector",
                groups |-> << << << "e", "0" >>, << "e", "1" >>, << "e", "2" >> >> >>]
ScalarClass == [class_name |-> "Scalar", groups |-> << << << "1" >> >> >>]
UnitClass == [class_name |-> "Unit", groups |-> << << << "1" >> >> >>]
\* The blades of RotorFrom0 in two groups, and the negated scalar blade.
EvenClass == [class_name |-> "Even",
              groups |-> << << << "1" >> >>,
                            << << "e", "0", "1" >>, << "e", "0", "2" >>, << "e", "1", "2" >> >> >>]
MinusClass == [class_name |-> "Minus", groups |-> << << << "-", "1" >> >> >>]

Descriptors == { RotorFrom1, VectorFrom1, RotorFrom0, VectorFrom0, ScalarClass, UnitClass }

\* The MultiVectorClass main builds from a descriptor: every blade name is
\* parsed; one panic aborts the run.
class_of(descriptor, algebra) ==
    LET grouped == [g \in 1..Len(descriptor.groups) |->
                      [k \in 1..Len(descriptor.groups[g]) |->
                          parse(descriptor.groups[g][k], algebra)]]
    IN  IF \E g \in 1..Len(grouped) : \E k \in 1..Len(grouped[g]) : grouped[g][k] = Panic
        THEN Panic
        ELSE [class_name |-> descriptor.class_name, grouped_basis |-> grouped]

\* ------------------------------------------------------------ MultiVectorClassRegistry::register in a row

RegistryClasses ==
    { class_of(d, G3) : d \in Descriptors \cup { EvenClass, MinusClass } } \ { Panic }

Register ==
    /\ pc = "registry"
    /\ Len(classes) < MaxRegister
    /\ \E class \in RegistryClasses :
          /\ index_by_signature' = register_index(class, classes, index_by_signature)
          /\ classes' = register_classes(class, classes)
          /\ registered' = Append(registered, class)
    /\ UNCHANGED << generator_squares, pc, main_vars, operand_vars, involution_vars, parse_vars, pass_vars, compare_vars, wide_vars, output_vars >>

InitRegistry == InitAt({ G3 }, "registry")

NextRegistry == Register

SpecRegistry == InitRegistry /\ [][NextRegistry]_vars

\* ------------------------------------------------------------ main: the derivation pass

\* AstNode::None.
AstNone == [none |-> TRUE]

\* AstNode::TraitImplementation, reduced to the name of its result and the
\* classes of its parameters (a constant carries the class it is a constant of).
TraitImplementation(name, parameters) == [name |-> name, parameters |-> parameters]

\* MultiVectorClass::is_scalar: the class holds the scalar blade and nothing else.
is_scalar(class) ==
    LET flat_basis == flatten(class.grouped_basis)
    IN  Len(flat_basis) = 1 /\ flat_basis[1].index = 0

\* Emitter::emit on a run of nodes: both renderers write nothing for
\* AstNode::None, and an operation definition for every other node.
emit(collector, ast_nodes) == collector \o SelectSeq(ast_nodes, LAMBDA n : n # AstNone)

Last(S) == CHOOSE x \in S : \A y \in S : y <= x

\* The loops "if ast_node != AstNode::None { table.insert(name, ast_node) }".
insert_some(map, ast_nodes) ==
    LET kept == SelectSeq(ast_nodes, LAMBDA n : n # AstNone)
        names == { kept[k].name : k \in 1..Len(kept) }
    IN  [n \in DOMAIN map \cup names |->
            IF n \in names THEN kept[Last({ k \in 1..Len(kept) : kept[k].name = n })]
            ELSE map[n]]

\* The order of String keys in a BTreeMap, for the class names explored.
ClassNames == << "Even", "Minus", "Rotor", "Scalar", "Unit", "Vector" >>

\* BTreeMap::values of a map keyed by class name.
values(map) ==
    LET keys == SelectSeq(ClassNames, LAMBDA n : n \in DOMAIN map)
    IN  [k \in 1..Len(keys) |-> map[keys[k]]]

\* The names of phase 1: the constants, then Involution::involutions.
SingleNames ==
    << "Zero", "One", "Neg", "Automorphism", "Reversal", "Conjugation", "Dual" >>

\* The names of Product::products, in order.
ProductNames ==
    << "GeometricProduct", "RegressiveProduct", "OuterProduct", "InnerProduct",
       "LeftContraction", "RightContraction", "ScalarProduct" >>

\* The names of phase 2 for one pair, in the order main derives them.
pair_names(class_a, class_b) ==
    (IF class_a # class_b THEN << "Into" >> ELSE << >>)
    \o << "Add", "Sub" >>
    \o (IF class_a = class_b THEN << "Mul", "Div" >> ELSE << >>)
    \o ProductNames

\* MultiVectorClass::constant and ::involution(.., false): derivable from the
\* algebra alone.
derive_single(name, class_a) == TraitImplementation(name, << class_a >>)

\* MultiVectorClass::involution(.., true), ::element_wise and ::product: an
\* operation definition when the oracle has the name derivable, the sentinel
\* otherwise.  A geometric product carries its result class, which the oracle
\* has be the class of the left or of the right operand.
derive_pair(name, class_a, class_b, derivable, result_side) ==
    IF name \notin derivable THEN AstNone
    ELSE IF name = "GeometricProduct"
    THEN [name |-> name, parameters |-> << class_a, class_b >>,
          result |-> IF result_side = "left" THEN class_a ELSE class_b]
    ELSE TraitImplementation(name, << class_a, class_b >>)

\* MultiVectorClass::derive_*: an operation definition, or the sentinel for
\* the step the oracle has fail.
derive_step(name, parameters, sentinel) ==
    IF name = sentinel THEN AstNone ELSE TraitImplementation(name, parameters)

\* The outcomes of compile explored: which of Into, GeometricProduct and
\* ScalarProduct it derives, whether it derives the element-wise operations
\* and the other products, the side a geometric product takes its result
\* class from, and the derived step that yields the sentinel, if any.
Oracles ==
    { [derivable |-> main \cup rest, result_side |-> side, sentinel |-> step] :
        main \in SUBSET { "Into", "GeometricProduct", "ScalarProduct" },
        rest \in { {}, { "Add", "Sub", "Mul", "Div", "RegressiveProduct", "OuterProduct",
                        "InnerProduct", "LeftContraction", "RightContraction" } },
        side \in { "left", "right" },
        step \in { "", "SquaredMagnitude", "Magnitude", "Mul", "Signum", "Inverse",
                   "Powi", "GeometricQuotient", "Transformation" } }

\* result_of_trait!: the result parameter of an operation definition; the
\* sentinel has none.
result_of_trait(ast_node) == IF ast_node = AstNone THEN Panic ELSE ast_node

signum_nodes_any_class(class_a, entry, single, sentinel) ==
    IF "GeometricProduct" \in DOMAIN entry.traits
    THEN (IF "Magnitude" \in DOMAIN single
          THEN << derive_step("Signum", << class_a >>, sentinel) >>
          ELSE << >>)
         \o (IF "SquaredMagnitude" \in DOMAIN single /\ "Reversal" \in DOMAIN single
             THEN << derive_step("Inverse", << class_a >>, sentinel) >>
             ELSE << >>)
    ELSE << >>

\* Phase 4 on one entry of the pair table: Signum and Inverse of class_a, for
\* a scalar-shaped class with a geometric product.
signum_nodes(class_a, entry, single, sentinel) ==
    IF "GeometricProduct" \in DOMAIN entry.traits /\ is_scalar(entry.parameter)
    THEN (IF "Magnitude" \in DOMAIN single
          THEN << derive_step("Signum", << class_a >>, sentinel) >>
          ELSE << >>)
         \o (IF "SquaredMagnitude" \in DOMAIN single /\ "Reversal" \in DOMAIN single
             THEN << derive_step("Inverse", << class_a >>, sentinel) >>
             ELSE << >>)
    ELSE << >>

\* The steps that run: those before the first panic.
ran(steps) ==
    LET panics == { k \in 1..Len(steps) : steps[k][1] = "panic" }
    IN  IF panics = { } THEN steps
        ELSE SubSeq(steps, 1, (CHOOSE k \in panics : \A l \in panics : k <= l) - 1)

\* What the steps of one kind that run act on, in order.
of_kind(steps, kind) ==
    LET done == SelectSeq(ran(steps), LAMBDA step : step[1] = kind)
    IN  [k \in 1..Len(done) |-> done[k][2]]

\* One iteration of the loop over class_a = list[i]: phases 1 to 4, as its
\* steps in order (a node handed to the emitter, a key inserted into a table,
\* a pair visited by a loop, a panic of result_of_trait!) and the tables it
\* builds when no step panics.
class_pass(i, list) ==
    LET class_a == list[i]
        guarded(table, ast_node) ==
            << << "emit", ast_node >> >>
            \o (IF ast_node # AstNone THEN << << "insert", << table, ast_node.name >> >> >>
                ELSE << >>)
        unguarded(ast_node) ==
            IF result_of_trait(ast_node) = Panic THEN << "panic", Panic >>
            ELSE << "insert", << << "single", i >>, ast_node.name >> >>
        visit(phase, class_b) == << "visit", << phase, class_a.class_name, class_b.class_name >> >>
        \* phase 1
        single_nodes == [k \in 1..Len(SingleNames) |-> derive_single(SingleNames[k], class_a)]
        single1 == insert_some(<< >>, single_nodes)
        phase1 == flatten([k \in 1..Len(single_nodes) |-> guarded(<< "single", i >>, single_nodes[k])])
        \* phase 2
        pair_nodes(j) ==
            [k \in 1..Len(pair_names(class_a, list[j])) |->
                derive_pair(pair_names(class_a, list[j])[k], class_a, list[j],
                            oracle.derivable, oracle.result_side)]
        pair == [n \in { list[j].class_name : j \in 1..Len(list) } |->
                    LET j == Last({ l \in 1..Len(list) : list[l].class_name = n })
                    IN  [parameter |-> list[j], traits |-> insert_some(<< >>, pair_nodes(j))]]
        phase2 == flatten([j \in 1..Len(list) |->
                      << visit("pair", list[j]) >>
                      \o flatten([k \in 1..Len(pair_nodes(j)) |->
                                     guarded(<< "traits", i, j >>, pair_nodes(j)[k])])
                      \o << << "insert", << << "pair", i >>, list[j].class_name >> >> >>])
        pair_values == values(pair)
        \* phase 3
        magnitude_nodes(entry) ==
            IF /\ "ScalarProduct" \in DOMAIN entry.traits
               /\ "Reversal" \in DOMAIN single1
               /\ class_a = entry.parameter
            THEN << derive_step("SquaredMagnitude", << class_a >>, oracle.sentinel),
                    derive_step("Magnitude", << class_a >>, oracle.sentinel) >>
            ELSE << >>
        magnitudes == flatten([k \in 1..Len(pair_values) |-> magnitude_nodes(pair_values[k])])
        single3 == insert_some(single1, magnitudes)
        phase3 == flatten([k \in 1..Len(pair_values) |->
                      << visit("magnitude", pair_values[k].parameter) >>
                      \o (LET nodes == magnitude_nodes(pair_values[k])
                          IN  IF nodes = << >> THEN << >>
                              ELSE << << "emit", nodes[1] >>, << "emit", nodes[2] >>,
                                      unguarded(nodes[1]), unguarded(nodes[2]) >>)])
        \* phase 4
        scale_nodes(entry) ==
            IF "GeometricProduct" \in DOMAIN entry.traits /\ is_scalar(entry.parameter)
            THEN IF ~is_scalar(class_a)
                 THEN << derive_step("Mul", << class_a, entry.parameter >>, oracle.sentinel) >>
                 ELSE << >>
            ELSE << >>
        signums == flatten([k \in 1..Len(pair_values) |->
                      signum_nodes(class_a, pair_values[k], single3, oracle.sentinel)])
        phase4 == flatten([k \in 1..Len(pair_values) |->
                      << visit("scale", pair_values[k].parameter) >>
                      \o [l \in 1..Len(scale_nodes(pair_values[k])) |->
                             << "emit", scale_nodes(pair_values[k])[l] >>]
                      \o (LET nodes == signum_nodes(class_a, pair_values[k], single3,
                                                    oracle.sentinel)
                          IN  flatten([l \in 1..Len(nodes) |->
                                          << << "emit", nodes[l] >>, unguarded(nodes[l]) >>]))])
    IN  [entry |-> [parameter |-> class_a,
                    single |-> insert_some(single3, signums),
                    pair |-> pair],
         steps |-> phase1 \o phase2 \o phase3 \o phase4
                   \o << << "insert", << << "classes" >>, class_a.class_name >> >> >>]

\* final_nodes with Transformation held back unless the second product ends in
\* class_b or a conversion into class_b is in the table.
final_nodes_into_required(a, b, table) ==
    IF "GeometricProduct" \notin DOMAIN b.traits THEN << >>
    ELSE
    LET class_a == a.parameter
        class_b == b.parameter
        geometric_product_result == result_of_trait(b.traits["GeometricProduct"]).result
        derive(name) == derive_step(name, << class_a, class_b >>, oracle.sentinel)
    IN  (IF /\ class_a = class_b
            /\ geometric_product_result = class_a
            /\ "One" \in DOMAIN a.single
            /\ "Inverse" \in DOMAIN a.single
         THEN << derive("Powi") >> ELSE << >>)
        \o (IF /\ class_b.class_name \in DOMAIN table
               /\ "Inverse" \in DOMAIN table[class_b.class_name].single
            THEN << derive("GeometricQuotient") >> ELSE << >>)
        \o (IF /\ "Reversal" \in DOMAIN a.single
               /\ geometric_product_result.class_name \in DOMAIN table
               /\ class_a.class_name \in DOMAIN table[geometric_product_result.class_name].pair
               /\ "GeometricProduct" \in
                     DOMAIN table[geometric_product_result.class_name].pair[class_a.class_name].traits
            THEN LET geometric_product_2_result ==
                         result_of_trait(table[geometric_product_result.class_name]
                                            .pair[class_a.class_name].traits["GeometricProduct"]).result
                 IN  IF /\ geometric_product_2_result.class_name \in DOMAIN table
                        /\ class_b.class_name \in
                              DOMAIN table[geometric_product_2_result.class_name].pair
                        /\ \/ geometric_product_2_result = class_b
                           \/ "Into" \in DOMAIN table[geometric_product_2_result.class_name]
                                                   .pair[class_b.class_name].traits
                     THEN << derive("Transformation") >> ELSE << >>
            ELSE << >>)

\* The final pass on one pair of the tables: Powi, GeometricQuotient and
\* Transformation, each handed to the emitter when its lookups succeed.
final_nodes(a, b, table) ==
    IF "GeometricProduct" \notin DOMAIN b.traits THEN << >>
    ELSE
    LET class_a == a.parameter
        class_b == b.parameter
        geometric_product_result == result_of_trait(b.traits["GeometricProduct"]).result
        derive(name) == derive_step(name, << class_a, class_b >>, oracle.sentinel)
    IN  (IF /\ class_a = class_b
            /\ geometric_product_result = class_a
            /\ "One" \in DOMAIN a.single
            /\ "Inverse" \in DOMAIN a.single
         THEN << derive("Powi") >> ELSE << >>)
        \o (IF /\ class_b.class_name \in DOMAIN table
               /\ "Inverse" \in DOMAIN table[class_b.class_name].single
            THEN << derive("GeometricQuotient") >> ELSE << >>)
        \o (IF /\ "Reversal" \in DOMAIN a.single
               /\ geometric_product_result.class_name \in DOMAIN table
               /\ class_a.class_name \in DOMAIN table[geometric_product_result.class_name].pair
               /\ "GeometricProduct" \in
                     DOMAIN table[geometric_product_result.class_name].pair[class_a.class_name].traits
            THEN LET geometric_product_2_result ==
                         result_of_trait(table[geometric_product_result.class_name]
                                            .pair[class_a.class_name].traits["GeometricProduct"]).result
                 IN  IF /\ geometric_product_2_result.class_name \in DOMAIN table
                        /\ class_b.class_name \in
                              DOMAIN table[geometric_product_2_result.class_name].pair
                     THEN << derive("Transformation") >> ELSE << >>
            ELSE << >>)

\* The pairs the final pass visits, in its order: the tables by class name.
final_pairs(table) ==
    flatten([k \in 1..Len(values(table)) |->
                [l \in 1..Len(values(values(table)[k].pair)) |->
                    << values(table)[k], values(values(table)[k].pair)[l] >>]])

\* The configurations explored: one or two class descriptors, and one of three.
Configs ==
    { << d >> : d \in Descriptors }
    \cup { << d, e >> : d \in Descriptors, e \in Descriptors }
    \cup { << RotorFrom0, VectorFrom0, ScalarClass >> }

\* main registers the classes of the configuration, each built by parsing its
\* blade names; one panic of parse aborts the run.
RegisterClasses ==
    /\ pc = "config"
    /\ LET list == [k \in 1..Len(config) |-> class_of(config[k], generator_squares)]
       IN  IF \E k \in 1..Len(list) : list[k] = Panic
           THEN /\ pc' = "aborted"
                /\ UNCHANGED << classes, index_by_signature, registered >>
           ELSE /\ pc' = "registered"
                /\ classes' = list
                /\ registered' = list
                /\ index_by_signature' =
                      [sig \in { signature(list[k]) : k \in 1..Len(list) } |->
                          Last({ k \in 1..Len(list) : signature(list[k]) = sig }) - 1]
    /\ UNCHANGED << generator_squares, main_vars, operand_vars, involution_vars, parse_vars, pass_vars, compare_vars, wide_vars, output_vars >>

\* One iteration of the loop over the classes: the operations of class_a and
\* of its pairs.
DeriveClass ==
    /\ pc = "registered"
    /\ next_class < Len(classes)
    /\ LET done == class_pass(next_class + 1, classes)
       IN  /\ emitted' = emit(emitted, of_kind(done.steps, "emit"))
           /\ written' = written \o of_kind(done.steps, "insert")
           /\ visited' = visited \o of_kind(done.steps, "visit")
           /\ IF Len(ran(done.steps)) < Len(done.steps)
              THEN /\ pc' = "aborted"
                   /\ UNCHANGED << next_class, trait_implementations >>
              ELSE /\ pc' = pc
                   /\ next_class' = next_class + 1
                   /\ trait_implementations' =
                         insert(trait_implementations, done.entry.parameter.class_name,
                                done.entry)
    /\ UNCHANGED << generator_squares, main_vars, operand_vars, involution_vars, parse_vars,
                    registry_vars, config, oracle, compare_vars, wide_vars, output_vars >>

\* The final pass over the tables.
FinalPass ==
    /\ pc = "registered"
    /\ next_class = Len(classes)
    /\ LET pairs == final_pairs(trait_implementations)
       IN  /\ emitted' = emit(emitted,
                            flatten([k \in 1..Len(pairs) |->
                                        final_nodes(pairs[k][1], pairs[k][2],
                                                    trait_implementations)]))
           /\ visited' = visited \o [k \in 1..Len(pairs) |->
                             << "final", pairs[k][1].parameter.class_name,
                                pairs[k][2].parameter.class_name >>]
    /\ pc' = "done"
    /\ UNCHANGED << generator_squares, main_vars, operand_vars, involution_vars, parse_vars,
                    registry_vars, config, oracle, next_class, trait_implementations, written, compare_vars, wide_vars, output_vars >>

InitPass == InitWith({ G3 }, "config", Configs, Oracles)

NextPass == RegisterClasses \/ DeriveClass \/ FinalPass

SpecPass == InitPass /\ [][NextPass]_vars

\* ------------------------------------------------------------ rust::emit_code on a class definition

\* emit::emit_element_name, as a sequence of characters: "scalar" for the
\* scalar blade, otherwise "e" ("_e" for a negative scalar) and the generator
\* numbers in upper-case hexadecimal.
emit_element_name(element) ==
    IF element.index = 0 THEN << "s", "c", "a", "l", "a", "r" >>
    ELSE (IF element.scalar < 0 THEN << "_", "e" >> ELSE << "e" >>)
         \o [k \in 1..Len(component_bits(element)) |->
                HexDigitsUpper[component_bits(element)[k] + 1]]

\* iter().fold(0, |a, b| a + b) over a sequence of numbers.
RECURSIVE fold_sum(_)
fold_sum(numbers) ==
    IF numbers = << >> THEN 0 ELSE Head(numbers) + fold_sum(Tail(numbers))

\* rust::emit_code, ClassDefinition: the width pushed for every group.
simd_widths(class) ==
    [j \in 1..Len(class.grouped_basis) |-> IF Len(class.grouped_basis[j]) = 1 THEN 1 ELSE 4]

\* usize::saturating_sub.
saturating_sub(a, b) == IF a > b THEN a - b ELSE 0

\* rust::emit_code, ClassDefinition: the elements of the array literal in the
\* body of `new`, group by group from group j on: the name of every blade of
\* the group, then one "0.0" for every index of len..width.
RECURSIVE constructor_body(_, _)
constructor_body(class, j) ==
    IF j > Len(class.grouped_basis) THEN << >>
    ELSE LET group == class.grouped_basis[j]
         IN  [k \in 1..Len(group) |-> emit_element_name(group[k])]
             \o [k \in 1..saturating_sub(simd_widths(class)[j], Len(group)) |->
                    << "0", ".", "0" >>]
             \o constructor_body(class, j + 1)

\* rust::emit_code, ClassDefinition: the entries of <CLASS>_INDEX_REMAP from
\* group j on, element_index being the counter of the loop.
RECURSIVE index_remap(_, _, _)
index_remap(class, j, element_index) ==
    IF j > Len(class.grouped_basis) THEN << >>
    ELSE LET len == Len(class.grouped_basis[j])
         IN  [k \in 1..len |-> element_index + k - 1]
             \o index_remap(class, j + 1,
                            element_index + len + saturating_sub(simd_widths(class)[j], len))

\* rust::emit_code on AstNode::ClassDefinition: nothing for a scalar class,
\* otherwise the union with its `elements: [f32; N]` field, the constructor
\* and the INDEX_REMAP constant of element_count entries.
ClassDefinition(class) ==
    IF is_scalar(class)
    THEN [class |-> class, written |-> FALSE, element_count |-> 0, elements |-> 0,
          constructor |-> << >>, index_remap |-> << >>]
    ELSE [class |-> class, written |-> TRUE,
          element_count |-> fold_sum([j \in 1..Len(class.grouped_basis) |->
                                        Len(class.grouped_basis[j])]),
          elements |-> fold_sum(simd_widths(class)),
          constructor |-> constructor_body(class, 1),
          index_remap |-> index_remap(class, 1, 0)]

\* The classes laid out: up to MaxGroups groups of 1 to MaxGroup blades each,
\* holding the blades of consecutive indices from `first` on, as
\* BasisElement::parse returns them for names with ascending digits.
LayoutMetrics == { [i \in 1..LayoutGen |-> 1] }
LayoutClass(sizes, first) ==
    [class_name |-> "Layout",
     grouped_basis |->
        [j \in 1..Len(sizes) |->
            [k \in 1..sizes[j] |->
                from_index(first + fold_sum(SubSeq(sizes, 1, j - 1)) + k - 1)]]]
LayoutClasses ==
    { LayoutClass(sizes, first) :
        sizes \in UNION { [1..m -> 1..MaxGroup] : m \in 1..MaxGroups }, first \in 0..1 }

EmitClassDefinition ==
    /\ pc = "classes"
    /\ \E class \in LayoutClasses : definition' = ClassDefinition(class)
    /\ pc' = "defined"
    /\ UNCHANGED << generator_squares, main_vars, operand_vars, involution_vars, parse_vars,
                    registry_vars, pass_vars, compare_vars, wide_vars, rendering >>

InitLayout == InitAt(LayoutMetrics, "classes")
NextLayout == EmitClassDefinition
SpecLayout == InitLayout /\ [][NextLayout]_vars

\* ------------------------------------------------------------ rust::emit_code and glsl::emit_code on the IR

\* What a renderer returns: Ok(()) with the pieces it wrote to the collector,
\* or a panic (unreachable!(), an index out of bounds).
Written(text) == [panic |-> FALSE, text |-> text]
Unreachable == [panic |-> TRUE, text |-> << >>]

\* Calls in a row, each ended by `?`: the pieces of all of them, or the panic
\* of the first that panics.
RECURSIVE sequence(_)
sequence(parts) ==
    IF parts = << >> THEN Written(<< >>)
    ELSE IF Head(parts).panic THEN Unreachable
    ELSE LET rest == sequence(Tail(parts))
         IN  IF rest.panic THEN Unreachable ELSE Written(Head(parts).text \o rest.text)

\* A loop that writes ", " before every item but the first.
joined(items) ==
    sequence([k \in 1..Len(items) |->
                 IF k > 1 THEN sequence(<< Written(<< ", " >>), items[k] >>) ELSE items[k]])

\* emit::camel_to_snake_case on the names of the IR explored: lower case, with
\* an underscore before every upper-case letter but the first.
camel_to_snake_case(name) ==
    CASE name = "GeometricProduct" -> "geometric_product"
      [] name = "Constructor" -> "constructor"
      [] name = "Reversal" -> "reversal"
      [] name = "Scalar" -> "scalar"
      [] name = "Even" -> "even"
      [] name = "Into" -> "into"
      [] name = "Add" -> "add"
      [] name = "One" -> "one"

\* emit::emit_indentation
emit_indentation(indentation) == Written([k \in 1..indentation |-> "    "])

\* DataType::is_scalar
data_type_is_scalar(data_type) ==
    CASE data_type.kind = "SimdVector" -> data_type.size = 1
      [] data_type.kind = "MultiVector" -> is_scalar(data_type.class)
      [] OTHER -> FALSE

\* Expression::is_scalar
expression_is_scalar(expression) ==
    IF expression.size > 1 THEN FALSE
    ELSE CASE expression.content.kind = "Variable" ->
                  data_type_is_scalar(expression.content.data_type)
           [] expression.content.kind = "InvokeInstanceMethod" ->
                  data_type_is_scalar(expression.content.object)
           [] OTHER -> FALSE

\* Parameter::multi_vector_class: the class, or the panic for a parameter of
\* another type.
multi_vector_class(parameter) ==
    IF parameter.data_type.kind = "MultiVector" THEN parameter.data_type.class ELSE Panic

\* rust::emit_data_type
rust_emit_data_type(data_type) ==
    CASE data_type.kind = "Integer" -> Written(<< "isize" >>)
      [] data_type.kind = "SimdVector" ->
             IF data_type.size = 1 THEN Written(<< "f32" >>)
             ELSE Written(<< "Simd32x", ToString(data_type.size) >>)
      [] data_type.kind = "MultiVector" ->
             IF is_scalar(data_type.class) THEN Written(<< "f32" >>)
             ELSE Written(<< data_type.class.class_name >>)

\* glsl::emit_data_type
glsl_emit_data_type(data_type) ==
    CASE data_type.kind = "Integer" -> Written(<< "int" >>)
      [] data_type.kind = "SimdVector" ->
             IF data_type.size = 1 THEN Written(<< "float" >>)
             ELSE Written(<< "vec", ToString(data_type.size) >>)
      [] data_type.kind = "MultiVector" ->
             IF is_scalar(data_type.class) THEN Written(<< "float" >>)
             ELSE Written(<< data_type.class.class_name >>)

\* The operator a binary expression writes, the same in both targets.
binary_operator(kind) ==
    CASE kind = "Add" -> " + "
      [] kind = "Subtract" -> " - "
      [] kind = "Multiply" -> " * "
      [] kind = "Divide" -> " / "
      [] kind = "LessThan" -> " < "
      [] kind = "Equal" -> " == "
      [] kind = "LogicAnd" -> " & "
      [] kind = "BitShiftRight" -> " >> "

\* rust::emit_expression.  `{}` of a number is ToString, `{:.1}` of an integer
\* value is its digits and ".0".
RECURSIVE rust_emit_expression(_)
rust_emit_expression(expression) ==
    LET content == expression.content
        kind == content.kind
    IN  CASE kind = "None" -> Unreachable
          [] kind = "Variable" -> Written(<< content.name >>)
          [] kind = "InvokeInstanceMethod" ->
                 sequence(<< rust_emit_expression(content.inner),
                             Written(<< ".", camel_to_snake_case(content.method_name), "(" >>),
                             joined([k \in 1..Len(content.arguments) |->
                                        rust_emit_expression(content.arguments[k][2])]),
                             Written(<< ")" >>) >>)
          [] kind = "InvokeClassMethod" ->
                 IF content.method_name = "Constructor" /\ is_scalar(content.class)
                 THEN IF content.arguments = << >> THEN Unreachable
                      ELSE rust_emit_expression(content.arguments[1][2])
                 ELSE IF content.method_name = "Constructor"
                 THEN sequence(<< Written(<< content.class.class_name, " { groups: ",
                                             content.class.class_name, "Groups { " >>),
                                  joined([k \in 1..Len(content.arguments) |->
                                             sequence(<< Written(<< "g", ToString(k - 1), ": " >>),
                                                         rust_emit_expression(
                                                             content.arguments[k][2]) >>)]),
                                  Written(<< " } }" >>) >>)
                 ELSE sequence(<< rust_emit_data_type([kind |-> "MultiVector",
                                                       class |-> content.class]),
                                  Written(<< "::", camel_to_snake_case(content.method_name),
                                             "(" >>),
                                  joined([k \in 1..Len(content.arguments) |->
                                             rust_emit_expression(content.arguments[k][2])]),
                                  Written(<< ")" >>) >>)
          [] kind = "Conversion" ->
                 sequence(<< rust_emit_expression(content.inner), Written(<< ".into()" >>) >>)
          [] kind = "Select" ->
                 sequence(<< Written(<< "if " >>), rust_emit_expression(content.condition),
                             Written(<< " { " >>), rust_emit_expression(content.then),
                             Written(<< " } else { " >>), rust_emit_expression(content.else),
                             Written(<< " }" >>) >>)
          [] kind = "Access" ->
                 sequence(<< rust_emit_expression(content.inner),
                             IF ~expression_is_scalar(content.inner)
                             THEN Written(<< ".group", ToString(content.array_index), "()" >>)
                             ELSE Written(<< >>) >>)
          [] kind = "Swizzle" ->
                 IF expression.size = 1
                 THEN sequence(<< rust_emit_expression(content.inner),
                                  IF content.inner.size > 1
                                  THEN IF content.indices = << >> THEN Unreachable
                                       ELSE Written(<< "[", ToString(content.indices[1]), "]" >>)
                                  ELSE Written(<< >>) >>)
                 ELSE sequence(<< Written(<< "swizzle!(" >>),
                                  rust_emit_expression(content.inner),
                                  Written(<< ", " >>),
                                  joined([k \in 1..Len(content.indices) |->
                                             Written(<< ToString(content.indices[k]) >>)]),
                                  Written(<< ")" >>) >>)
          [] kind = "Gather" ->
                 IF expression.size = 1 /\ expression_is_scalar(content.inner)
                 THEN rust_emit_expression(content.inner)
                 ELSE sequence(<<
                        IF expression.size > 1
                        THEN sequence(<< rust_emit_data_type([kind |-> "SimdVector",
                                                              size |-> expression.size]),
                                         Written(<< "::from(" >>) >>)
                        ELSE Written(<< >>),
                        Written(IF Len(content.indices) > 1 THEN << "[" >> ELSE << >>),
                        joined([k \in 1..Len(content.indices) |->
                                   sequence(<< rust_emit_expression(content.inner),
                                               IF expression_is_scalar(content.inner)
                                               THEN Written(<< >>)
                                               ELSE Written(
                                                      << ".group", ToString(content.indices[k][1]),
                                                         "()" >>
                                                      \o (IF content.inner.size > 1
                                                          THEN << "[",
                                                                  ToString(content.indices[k][2]),
                                                                  "]" >>
                                                          ELSE << >>)) >>)]),
                        Written(IF Len(content.indices) > 1 THEN << "]" >> ELSE << >>),
                        Written(IF expression.size > 1 THEN << ")" >> ELSE << >>) >>)
          [] kind = "Constant" ->
                 (CASE content.data_type.kind = "Integer" ->
                           IF content.values = << >> THEN Unreachable
                           ELSE Written(<< ToString(content.values[1]) >>)
                    [] content.data_type.kind = "SimdVector" ->
                           IF expression.size = 1
                           THEN IF content.values = << >> THEN Unreachable
                                ELSE Written(<< ToString(content.values[1]), ".0" >>)
                           ELSE sequence(<<
                                  rust_emit_data_type([kind |-> "SimdVector",
                                                       size |-> expression.size]),
                                  Written(<< "::from(" >>),
                                  Written(IF Len(content.values) > 1 THEN << "[" >> ELSE << >>),
                                  joined([k \in 1..Len(content.values) |->
                                             Written(<< ToString(content.values[k]), ".0" >>)]),
                                  Written(IF Len(content.values) > 1 THEN << "]" >> ELSE << >>),
                                  Written(<< ")" >>) >>)
                    [] OTHER -> Unreachable)
          [] kind = "SquareRoot" ->
                 sequence(<< rust_emit_expression(content.inner), Written(<< ".sqrt()" >>) >>)
          [] OTHER ->
                 sequence(<< rust_emit_expression(content.lhs),
                             Written(<< binary_operator(kind) >>),
                             rust_emit_expression(content.rhs) >>)

\* glsl::emit_expression.  COMPONENT has four names; an index past them panics.
RECURSIVE glsl_emit_expression(_)
glsl_emit_expression(expression) ==
    LET content == expression.content
        kind == content.kind
        COMPONENT == << "x", "y", "z", "w" >>
    IN  CASE kind = "None" -> Unreachable
          [] kind = "Variable" -> Written(<< content.name >>)
          [] kind = "InvokeClassMethod" ->
                 IF content.method_name = "Constructor" /\ is_scalar(content.class)
                 THEN IF content.arguments = << >> THEN Unreachable
                      ELSE glsl_emit_expression(content.arguments[1][2])
                 ELSE sequence(<<
                        IF content.method_name = "Constructor"
                        THEN Written(<< content.class.class_name >>)
                        ELSE Written(<< camel_to_snake_case(content.class.class_name), "_",
                                        camel_to_snake_case(content.method_name) >>),
                        Written(<< "(" >>),
                        joined([k \in 1..Len(content.arguments) |->
                                   glsl_emit_expression(content.arguments[k][2])]),
                        Written(<< ")" >>) >>)
          [] kind = "InvokeInstanceMethod" ->
                 sequence(<<
                    IF content.result.kind = "MultiVector"
                    THEN Written(<< camel_to_snake_case(content.result.class.class_name), "_" >>)
                    ELSE Written(<< >>),
                    sequence([k \in 1..Len(content.arguments) |->
                                 IF content.arguments[k][1].kind = "MultiVector"
                                 THEN Written(<< camel_to_snake_case(
                                                     content.arguments[k][1].class.class_name),
                                                 "_" >>)
                                 ELSE Written(<< >>)]),
                    Written(<< camel_to_snake_case(content.method_name), "(" >>),
                    glsl_emit_expression(content.inner),
                    Written(IF content.arguments # << >> THEN << ", " >> ELSE << >>),
                    joined([k \in 1..Len(content.arguments) |->
                               glsl_emit_expression(content.arguments[k][2])]),
                    Written(<< ")" >>) >>)
          [] kind = "Conversion" ->
                 sequence(<< Written(<< camel_to_snake_case(content.source.class_name), "_",
                                        camel_to_snake_case(content.destination.class_name),
                                        "_into(" >>),
                             glsl_emit_expression(content.inner),
                             Written(<< ")" >>) >>)
          [] kind = "Select" ->
                 sequence(<< Written(<< "(" >>), glsl_emit_expression(content.condition),
                             Written(<< ") ? " >>), glsl_emit_expression(content.then),
                             Written(<< " : " >>), glsl_emit_expression(content.else) >>)
          [] kind = "Access" ->
                 sequence(<< glsl_emit_expression(content.inner),
                             IF ~expression_is_scalar(content.inner)
                             THEN Written(<< ".g", ToString(content.array_index) >>)
                             ELSE Written(<< >>) >>)
          [] kind = "Swizzle" ->
                 sequence(<< glsl_emit_expression(content.inner),
                             Written(<< "." >>),
                             sequence([k \in 1..Len(content.indices) |->
                                          IF content.indices[k] >= Len(COMPONENT)
                                          THEN Unreachable
                                          ELSE Written(<< COMPONENT[content.indices[k] + 1] >>)])
                          >>)
          [] kind = "Gather" ->
                 IF expression.size = 1 /\ expression_is_scalar(content.inner)
                 THEN glsl_emit_expression(content.inner)
                 ELSE sequence(<<
                        IF expression.size > 1
                        THEN sequence(<< glsl_emit_data_type([kind |-> "SimdVector",
                                                              size |-> expression.size]),
                                         Written(<< "(" >>) >>)
                        ELSE Written(<< >>),
                        joined([k \in 1..Len(content.indices) |->
                                   sequence(<<
                                      glsl_emit_expression(content.inner),
                                      IF expression_is_scalar(content.inner)
                                      THEN Written(<< >>)
                                      ELSE sequence(<<
                                             Written(<< ".g", ToString(content.indices[k][1]) >>),
                                             IF content.inner.size > 1
                                             THEN IF content.indices[k][2] >= Len(COMPONENT)
                                                  THEN Unreachable
                                                  ELSE Written(<< ".",
                                                         COMPONENT[content.indices[k][2] + 1] >>)
                                             ELSE Written(<< >>) >>) >>)]),
                        Written(IF expression.size > 1 THEN << ")" >> ELSE << >>) >>)
          [] kind = "Constant" ->
                 (CASE content.data_type.kind = "Integer" ->
                           IF content.values = << >> THEN Unreachable
                           ELSE Written(<< ToString(content.values[1]) >>)
                    [] content.data_type.kind = "SimdVector" ->
                           IF expression.size = 1
                           THEN IF content.values = << >> THEN Unreachable
                                ELSE Written(<< ToString(content.values[1]), ".0" >>)
                           ELSE sequence(<<
                                  glsl_emit_data_type([kind |-> "SimdVector",
                                                       size |-> expression.size]),
                                  Written(<< "(" >>),
                                  joined([k \in 1..Len(content.values) |->
                                             Written(<< ToString(content.values[k]), ".0" >>)]),
                                  Written(<< ")" >>) >>)
                    [] OTHER -> Unreachable)
          [] kind = "SquareRoot" ->
                 sequence(<< Written(<< "sqrt(" >>), glsl_emit_expression(content.inner),
                             Written(<< ")" >>) >>)
          [] OTHER ->
                 sequence(<< Written(IF kind = "LogicAnd" THEN << "(" >> ELSE << >>),
                             glsl_emit_expression(content.lhs),
                             Written(<< binary_operator(kind) >>),
                             glsl_emit_expression(content.rhs),
                             Written(IF kind = "LogicAnd" THEN << ")" >> ELSE << >>) >>)

\* rust::emit_assign_trait
emit_assign_trait(trait_result, parameters) ==
    IF multi_vector_class(trait_result) = Panic \/ parameters = << >> THEN Unreachable
    ELSE IF multi_vector_class(parameters[1]) = Panic THEN Unreachable
    ELSE IF multi_vector_class(trait_result) # multi_vector_class(parameters[1]) THEN Written(<< >>)
    ELSE IF Len(parameters) < 2 THEN Unreachable
    ELSE sequence(<< Written(<< "impl ", trait_result.name, "Assign<" >>),
                     rust_emit_data_type(parameters[2].data_type),
                     Written(<< "> for " >>),
                     rust_emit_data_type(parameters[1].data_type),
                     Written(<< " {\n    fn ", camel_to_snake_case(trait_result.name),
                                "_assign(&mut self, other: " >>),
                     rust_emit_data_type(parameters[2].data_type),
                     Written(<< ") {\n        *self = (*self).",
                                camel_to_snake_case(trait_result.name),
                                "(other);\n    }\n}\n\n" >>) >>)

\* rust::emit_code.  Of a class definition the union with its elements array,
\* the array literal of the constructor and the INDEX_REMAP constant are kept.
RECURSIVE rust_emit_code(_, _)
rust_emit_code(ast_node, indentation) ==
    LET kind == ast_node.kind
    IN  CASE kind = "None" -> Written(<< >>)
          [] kind = "Preamble" ->
                 Written(<< "#![allow(clippy::assign_op_pattern)]\n",
                            "use crate::{simd::*, *};\nuse std::ops::{Add, AddAssign, Div, DivAssign, Mul, MulAssign, Neg, Sub, SubAssign};\n\n" >>)
          [] kind = "ClassDefinition" ->
                 IF is_scalar(ast_node.class) THEN Written(<< >>)
                 ELSE LET layout == ClassDefinition(ast_node.class)
                      IN  Written(<< "pub union ", ast_node.class.class_name, " {\n",
                                     "elements: [f32; ", ToString(layout.elements), "],\n",
                                     "Self { elements: [" >>
                                  \o flatten(layout.constructor)
                                  \o << "] }\n", "_INDEX_REMAP: [usize; ",
                                        ToString(layout.element_count), "] = [" >>
                                  \o [k \in 1..Len(layout.index_remap) |->
                                         ToString(layout.index_remap[k])]
                                  \o << "];\n\n" >>)
          [] kind = "ReturnStatement" ->
                 sequence(<< Written(<< "return " >>),
                             rust_emit_expression(ast_node.expression),
                             Written(<< ";\n" >>) >>)
          [] kind = "VariableAssignment" ->
                 sequence(<< IF ast_node.data_type # << >>
                             THEN sequence(<< Written(<< "let mut ", ast_node.name, ": " >>),
                                              rust_emit_data_type(ast_node.data_type[1]) >>)
                             ELSE Written(<< ast_node.name >>),
                             Written(<< " = " >>),
                             rust_emit_expression(ast_node.expression),
                             Written(<< ";\n" >>) >>)
          [] kind \in { "IfThenBlock", "WhileLoopBlock" } ->
                 sequence(<< Written(IF kind = "IfThenBlock" THEN << "if " >> ELSE << "while " >>),
                             rust_emit_expression(ast_node.condition),
                             Written(<< " {\n" >>),
                             sequence([i \in 1..Len(ast_node.body) |->
                                          sequence(<< emit_indentation(indentation + 1),
                                                      rust_emit_code(ast_node.body[i],
                                                                     indentation + 1) >>)]),
                             emit_indentation(indentation),
                             Written(<< "}\n" >>) >>)
          [] kind = "TraitImplementation" ->
                 LET trait_result == ast_node.result
                     parameters == ast_node.parameters
                     body == ast_node.body
                     n == Len(ast_node.parameters)
                 IN  IF /\ data_type_is_scalar(trait_result.data_type)
                        /\ ~\E k \in 1..n :
                               /\ parameters[k].data_type.kind = "MultiVector"
                               /\ ~is_scalar(parameters[k].data_type.class)
                     THEN Written(<< >>)
                     ELSE IF n > 2 THEN Unreachable
                     ELSE sequence(<<
                            Written(<< "impl ", trait_result.name >>),
                            IF n = 1 /\ trait_result.name = "Into"
                            THEN sequence(<< Written(<< "<" >>),
                                             rust_emit_data_type(trait_result.data_type),
                                             Written(<< ">" >>) >>)
                            ELSE IF n = 2 /\ parameters[2].data_type.kind = "MultiVector"
                            THEN sequence(<< Written(<< "<" >>),
                                             rust_emit_data_type(parameters[2].data_type),
                                             Written(<< ">" >>) >>)
                            ELSE Written(<< >>),
                            Written(<< " for " >>),
                            rust_emit_data_type(IF n = 0 THEN trait_result.data_type
                                                ELSE parameters[1].data_type),
                            Written(<< " {\n" >>),
                            IF n > 0 /\ trait_result.name # "Into"
                            THEN sequence(<< emit_indentation(indentation + 1),
                                             Written(<< "type Output = " >>),
                                             rust_emit_data_type(trait_result.data_type),
                                             Written(<< ";\n\n" >>) >>)
                            ELSE Written(<< >>),
                            emit_indentation(indentation + 1),
                            Written(<< "fn ", camel_to_snake_case(trait_result.name) >>),
                            IF n = 0 THEN Written(<< "() -> Self" >>)
                            ELSE IF n = 1
                            THEN sequence(<< Written(<< "(", parameters[1].name, ") -> " >>),
                                             rust_emit_data_type(trait_result.data_type) >>)
                            ELSE sequence(<< Written(<< "(", parameters[1].name, ", ",
                                                        parameters[2].name, ": " >>),
                                             rust_emit_data_type(parameters[2].data_type),
                                             Written(<< ") -> " >>),
                                             rust_emit_data_type(trait_result.data_type) >>),
                            Written(<< " {\n" >>),
                            sequence([i \in 1..Len(body) |->
                                sequence(<< emit_indentation(indentation + 2),
                                            IF i = Len(body) /\ body[i].kind = "ReturnStatement"
                                            THEN sequence(<<
                                                   rust_emit_expression(body[i].expression),
                                                   Written(<< "\n" >>) >>)
                                            ELSE rust_emit_code(body[i], indentation + 2) >>)]),
                            emit_indentation(indentation + 1),
                            Written(<< "}\n}\n\n" >>),
                            IF trait_result.name \in { "Add", "Sub", "Mul", "Div" }
                            THEN emit_assign_trait(trait_result, parameters)
                            ELSE Written(<< >>) >>)

\* glsl::emit_code
RECURSIVE glsl_emit_code(_, _)
glsl_emit_code(ast_node, indentation) ==
    LET kind == ast_node.kind
        class_name(parameter) ==
            IF multi_vector_class(parameter) = Panic THEN Unreachable
            ELSE Written(<< camel_to_snake_case(multi_vector_class(parameter).class_name) >>)
    IN  CASE kind \in { "None", "Preamble" } -> Written(<< >>)
          [] kind = "ClassDefinition" ->
                 IF is_scalar(ast_node.class) THEN Written(<< >>)
                 ELSE sequence(<<
                        Written(<< "struct ", ast_node.class.class_name, " {\n" >>),
                        sequence([i \in 1..Len(ast_node.class.grouped_basis) |->
                            sequence(<<
                               emit_indentation(indentation + 1),
                               Written(<< "// " >>),
                               joined([k \in 1..Len(ast_node.class.grouped_basis[i]) |->
                                          Written(fmt(ast_node.class.grouped_basis[i][k], 0))]),
                               Written(<< "\n" >>),
                               emit_indentation(indentation + 1),
                               glsl_emit_data_type(
                                   [kind |-> "SimdVector",
                                    size |-> Len(ast_node.class.grouped_basis[i])]),
                               Written(<< " g", ToString(i - 1), ";\n" >>) >>)]),
                        emit_indentation(indentation),
                        Written(<< "};\n\n" >>) >>)
          [] kind = "ReturnStatement" ->
                 sequence(<< Written(<< "return " >>),
                             glsl_emit_expression(ast_node.expression),
                             Written(<< ";\n" >>) >>)
          [] kind = "VariableAssignment" ->
                 sequence(<< IF ast_node.data_type # << >>
                             THEN sequence(<< glsl_emit_data_type(ast_node.data_type[1]),
                                              Written(<< " " >>) >>)
                             ELSE Written(<< >>),
                             Written(<< ast_node.name, " = " >>),
                             glsl_emit_expression(ast_node.expression),
                             Written(<< ";\n" >>) >>)
          [] kind \in { "IfThenBlock", "WhileLoopBlock" } ->
                 sequence(<< Written(IF kind = "IfThenBlock" THEN << "if" >> ELSE << "while" >>),
                             Written(<< "(" >>),
                             glsl_emit_expression(ast_node.condition),
                             Written(<< ") {\n" >>),
                             sequence([i \in 1..Len(ast_node.body) |->
                                          sequence(<< emit_indentation(indentation + 1),
                                                      glsl_emit_code(ast_node.body[i],
                                                                     indentation + 1) >>)]),
                             emit_indentation(indentation),
                             Written(<< "}\n" >>) >>)
          [] kind = "TraitImplementation" ->
                 LET trait_result == ast_node.result
                     parameters == ast_node.parameters
                     n == Len(ast_node.parameters)
                 IN  sequence(<<
                        glsl_emit_data_type(trait_result.data_type),
                        Written(<< " " >>),
                        IF n = 0 THEN class_name(trait_result)
                        ELSE IF n = 1 /\ trait_result.name = "Into"
                        THEN sequence(<< class_name(parameters[1]), Written(<< "_" >>),
                                         class_name(trait_result) >>)
                        ELSE IF n = 1 THEN class_name(parameters[1])
                        ELSE IF n = 2 /\ parameters[2].data_type.kind # "MultiVector"
                        THEN class_name(parameters[1])
                        ELSE IF n = 2
                        THEN sequence(<< class_name(parameters[1]), Written(<< "_" >>),
                                         class_name(parameters[2]) >>)
                        ELSE Unreachable,
                        Written(<< "_", camel_to_snake_case(trait_result.name), "(" >>),
                        joined([k \in 1..n |->
                                   sequence(<< glsl_emit_data_type(parameters[k].data_type),
                                               Written(<< " ", parameters[k].name >>) >>)]),
                        Written(<< ") {\n" >>),
                        sequence([i \in 1..Len(ast_node.body) |->
                                     sequence(<< emit_indentation(indentation + 1),
                                                 glsl_emit_code(ast_node.body[i],
                                                                indentation + 1) >>)]),
                        emit_indentation(indentation),
                        Written(<< "}\n\n" >>) >>)

\* The expressions rendered: the leaves (no content, a variable of a class and
\* of the scalar class, a constant of each data type) and every other content
\* variant over the leaves.
Expressions ==
    LET Even == class_of(EvenClass, G3)
        Scalar == class_of(ScalarClass, G3)
        MultiVector(class) == [kind |-> "MultiVector", class |-> class]
        SimdVector(size) == [kind |-> "SimdVector", size |-> size]
        Expression(size, content) == [size |-> size, content |-> content]
        Leaves ==
            { Expression(0, [kind |-> "None"]),
              Expression(1, [kind |-> "Variable", data_type |-> MultiVector(Even),
                             name |-> "self"]),
              Expression(1, [kind |-> "Variable", data_type |-> MultiVector(Scalar),
                             name |-> "other"]),
              Expression(1, [kind |-> "Constant", data_type |-> [kind |-> "Integer"],
                             values |-> << 2 >>]),
              Expression(4, [kind |-> "Constant", data_type |-> SimdVector(4),
                             values |-> << 1, 0, 0, 0 >>]),
              Expression(1, [kind |-> "Constant", data_type |-> MultiVector(Even),
                             values |-> << 1 >>]) }
        Arguments == { << >> } \cup { << << MultiVector(Even), leaf >> >> : leaf \in Leaves }
    IN  Leaves
        \cup { Expression(1, [kind |-> "InvokeInstanceMethod", result |-> MultiVector(Even),
                              inner |-> inner, method_name |-> "GeometricProduct",
                              object |-> MultiVector(Even), arguments |-> arguments]) :
                 inner \in Leaves, arguments \in Arguments }
        \cup { Expression(1, [kind |-> "InvokeClassMethod", class |-> class,
                              method_name |-> method_name, arguments |-> arguments]) :
                 class \in { Even, Scalar }, method_name \in { "Constructor", "One" },
                 arguments \in Arguments }
        \cup { Expression(1, [kind |-> "Conversion", source |-> Even, destination |-> Scalar,
                              inner |-> inner]) : inner \in Leaves }
        \cup { Expression(1, [kind |-> "Select", condition |-> condition, then |-> then,
                              else |-> else]) :
                 condition \in Leaves, then \in Leaves, else \in Leaves }
        \cup { Expression(1, [kind |-> "Access", inner |-> inner, array_index |-> array_index]) :
                 inner \in Leaves, array_index \in 0..1 }
        \cup { Expression(Len(indices), [kind |-> "Swizzle", inner |-> inner,
                                         indices |-> indices]) :
                 inner \in Leaves, indices \in { << 0 >>, << 1, 0, 3, 2 >> } }
        \cup { Expression(Len(indices), [kind |-> "Gather", inner |-> inner,
                                         indices |-> indices]) :
                 inner \in Leaves, indices \in { << << 0, 0 >> >>, << << 0, 0 >>, << 1, 2 >> >> } }
        \cup { Expression(1, [kind |-> "SquareRoot", inner |-> inner]) : inner \in Leaves }
        \cup { Expression(1, [kind |-> kind, lhs |-> lhs, rhs |-> rhs]) :
                 kind \in { "Add", "Subtract", "Multiply", "Divide", "LessThan", "Equal",
                            "LogicAnd", "BitShiftRight" },
                 lhs \in Leaves, rhs \in Leaves }

\* The statement nodes rendered: every node kind of ast.rs, an operation
\* definition having a result of each data type and 0 to MaxParameters
\* parameters.
AstNodes ==
    LET Even == class_of(EvenClass, G3)
        Scalar == class_of(ScalarClass, G3)
        DataTypes == { [kind |-> "Integer"], [kind |-> "SimdVector", size |-> 1],
                       [kind |-> "MultiVector", class |-> Even],
                       [kind |-> "MultiVector", class |-> Scalar] }
        Parameters ==
            { [name |-> "self", data_type |-> [kind |-> "MultiVector", class |-> Even]],
              [name |-> "other", data_type |-> [kind |-> "MultiVector", class |-> Scalar]],
              [name |-> "exponent", data_type |-> [kind |-> "Integer"]] }
        Returns == { [kind |-> "ReturnStatement", expression |-> e] : e \in Expressions }
        Simple == { n \in Returns : n.expression.content.kind \in { "None", "Variable", "Constant" } }
        Bodies == { << >>, << [kind |-> "None"] >> } \cup { << n >> : n \in Simple }
    IN  { [kind |-> "None"], [kind |-> "Preamble"],
          [kind |-> "ClassDefinition", class |-> Even],
          [kind |-> "ClassDefinition", class |-> Scalar] }
        \cup Returns
        \cup { [kind |-> "VariableAssignment", name |-> "x", data_type |-> data_type,
                expression |-> n.expression] :
                 data_type \in { << >>, << [kind |-> "SimdVector", size |-> 4] >> }, n \in Simple }
        \cup { [kind |-> kind, condition |-> n.expression, body |-> body] :
                 kind \in { "IfThenBlock", "WhileLoopBlock" }, n \in Simple, body \in Bodies }
        \cup { [kind |-> "TraitImplementation",
                result |-> [name |-> name, data_type |-> data_type],
                parameters |-> parameters, body |-> body] :
                 name \in { "Add", "Into", "Reversal" }, data_type \in DataTypes,
                 parameters \in UNION { [1..m -> Parameters] : m \in 0..MaxParameters },
                 body \in Bodies }

\* Emitter::emit on one node: rust::emit_code, then glsl::emit_code, each from
\* indentation 0.
Render ==
    /\ pc = "ir"
    /\ \E ast_node \in AstNodes :
          rendering' = [ast_node |-> ast_node,
                        rust |-> rust_emit_code(ast_node, 0),
                        glsl |-> glsl_emit_code(ast_node, 0)]
    /\ pc' = "rendered"
    /\ UNCHANGED << generator_squares, main_vars, operand_vars, involution_vars, parse_vars,
                    registry_vars, pass_vars, compare_vars, wide_vars, definition >>

SpecRender == InitAt({ G3 }, "ir") /\ [][Render]_vars

\* ------------------------------------------------------------ basis, dual and product on a 16-bit index

\* GeometricAlgebra::basis: the length of the range
\* 0..(basis_size() as BasisElementIndex) it maps over.
basis_len(algebra) == basis_size(algebra) % 2^IndexBits

\* BasisElement::product: BasisElementIndex::MAX << (index + 1) is taken for
\* every bit index set in a; the shift overflows when index + 1 reaches the
\* width of the type.
shift_overflows(a) ==
    \E k \in 1..Len(component_bits(a)) : component_bits(a)[k] + 1 >= IndexBits

\* BasisElement::dual: basis_size() as BasisElementIndex - 1 - self.index is
\* below zero when the cast wrapped, and dual calls product(self, result).
dual_overflows(e, algebra) ==
    \/ basis_len(algebra) - 1 - e.index < 0
    \/ shift_overflows(e)

\* The algebras of 0 to 16 generators that square to 1.
WideMetrics == { [i \in 1..m |-> 1] : m \in 0..IndexBits }
\* The lowest and the highest n-bit indices and the two single-generator
\* blades at the ends.
WideBlades(algebra) ==
    { from_index(i) : i \in { j \in { 0, 1, 2, basis_size(algebra) \div 2,
                                      basis_size(algebra) - 2, basis_size(algebra) - 1 } :
                                j >= 0 /\ j < basis_size(algebra) } }

Enumerate ==
    /\ pc = "operands"
    /\ \E a \in WideBlades(generator_squares), b \in WideBlades(generator_squares) :
          /\ factor_a' = a
          /\ factor_b' = b
          /\ wide' = [count |-> basis_len(generator_squares),
                      dual_overflow |-> dual_overflows(a, generator_squares),
                      shift_overflow |-> shift_overflows(a)]
    /\ pc' = "enumerated"
    /\ UNCHANGED << generator_squares, main_vars, factor_c, result, result_left, result_right,
                    involution_vars, parse_vars, registry_vars, pass_vars, compare_vars,
                    output_vars >>

InitWide == InitAt(WideMetrics, "operands")
NextWide == Enumerate
SpecWide == InitWide /\ [][NextWide]_vars

\* ------------------------------------------------------------ reference notions

\* The generators of a blade index, as a set.
Generators(index) == { i \in 0..(IndexBits - 1) : BitAt(index, i) = 1 }

\* The pairs (i, j), i a generator of a and j a generator of b, that are out of order.
Inversions(a, b) ==
    { ij \in Generators(a.index) \X Generators(b.index) : ij[2] < ij[1] }

Sign(k) == IF k % 2 = 0 THEN 1 ELSE -1

\* The product of the squares of the generators of the set S.
RECURSIVE SquareOf(_, _)
SquareOf(S, algebra) ==
    IF S = {} THEN 1
    ELSE LET i == CHOOSE j \in S : TRUE
         IN  algebra[i + 1] * SquareOf(S \ {i}, algebra)

\* ------------------------------------------------------------ C1

\* C1: the geometric product of basis blades is associative: for every metric
\* and all blades a, b, c with scalar +1 or -1, product(product(a, b), c) and
\* product(a, product(b, c)) have the same index and the same scalar.
C1_ProductAssociative ==
    pc = "multiplied" =>
        /\ result_left.index = result_right.index
        /\ result_left.scalar = result_right.scalar

\* e1 * e12 * e2 under a mixed metric: signs and squares both take part.
C1_Witness ==
    /\ pc = "multiplied"
    /\ generator_squares = <<-1, 1>>
    /\ factor_a = [scalar |-> -1, index |-> 1]
    /\ factor_b = [scalar |-> 1, index |-> 3]
    /\ factor_c = [scalar |-> 1, index |-> 2]
    /\ result.index = 2
    /\ result_left = result_right
    /\ result_left.scalar # 0

\* ------------------------------------------------------------ C2

\* C2: product(a, b) has the index a.index XOR b.index and the scalar
\* a.scalar * b.scalar * (-1)^k * (the product of the squares of the generators
\* in both a and b), k being the number of pairs (i, j) with i in a, j in b, j < i.
C2_ProductFormula ==
    pc = "multiplied" =>
        /\ Generators(result.index) =
               (Generators(factor_a.index) \ Generators(factor_b.index))
               \cup (Generators(factor_b.index) \ Generators(factor_a.index))
        /\ result.index < basis_size(generator_squares)
        /\ result.scalar =
               factor_a.scalar * factor_b.scalar
               * Sign(Cardinality(Inversions(factor_a, factor_b)))
               * SquareOf(Generators(factor_a.index) \cap Generators(factor_b.index),
                          generator_squares)

\* e123 * e12: three inversions, two shared generators, one of them negative.
C2_Witness ==
    /\ pc = "multiplied"
    /\ generator_squares = <<1, -1, 1>>
    /\ factor_a = [scalar |-> 1, index |-> 7]
    /\ factor_b = [scalar |-> -1, index |-> 3]
    /\ Cardinality(Inversions(factor_a, factor_b)) = 3
    /\ result = [scalar |-> -1, index |-> 4]

\* ------------------------------------------------------------ C10

\* C10: for every generator i, product(e_i, e_i) of the blade from_index(1 << i)
\* with itself has index 0 and scalar generator_squares[i]; a zero square gives
\* a zero-scalar blade as an ordinary result.
C10_GeneratorSquares ==
    pc = "multiplied" =>
        \A i \in 0..(Len(generator_squares) - 1) :
            (factor_a = from_index(Shl(1, i)) /\ factor_b = from_index(Shl(1, i)))
                => result = [scalar |-> generator_squares[i + 1], index |-> 0]

\* e2 * e2 with a degenerate second generator: the result is the zero-scalar blade.
C10_Witness ==
    /\ pc = "multiplied"
    /\ generator_squares = <<1, 0, -1>>
    /\ factor_a = from_index(2)
    /\ factor_b = from_index(2)
    /\ result = [scalar |-> 0, index |-> 0]

\* ------------------------------------------------------------ C3

Range(seq) == { seq[k] : k \in 1..Len(seq) }

RefGrade(e) == Cardinality(Generators(e.index))

Lowest(S) == CHOOSE x \in S : \A y \in S : x <= y

\* x comes before y in the canonical order: by grade, ties by the lowest differing bit.
CanonicallyBefore(x, y) ==
    \/ RefGrade(x) < RefGrade(y)
    \/ /\ RefGrade(x) = RefGrade(y)
       /\ x.index # y.index
       /\ Lowest(Generators(x.index) \ Generators(y.index))
              < Lowest(Generators(y.index) \ Generators(x.index))

\* C3: for n generators, basis_size() is 2^n and sorted_basis() returns exactly
\* 2^n blades with pairwise distinct indices, in canonical order (grade
\* ascending, ties by the lowest differing bit), each with scalar +1 or -1,
\* whatever the generator squares are.
C3_SortedBasis ==
    pc = "cayley" =>
        LET n == Len(generator_squares)
        IN  /\ basis_size(generator_squares) = 2^n
            /\ Len(main_basis) = 2^n
            /\ { main_basis[k].index : k \in 1..Len(main_basis) } = 0..(2^n - 1)
            /\ \A i, j \in 1..Len(main_basis) :
                   i < j => CanonicallyBefore(main_basis[i], main_basis[j])
            /\ \A k \in 1..Len(main_basis) : main_basis[k].scalar \in {-1, 1}

\* Three generators, a degenerate and a negative one: 1, e0, e1, e2, e01, -e02, e12, e012.
C3_Witness ==
    /\ pc = "cayley"
    /\ generator_squares = <<0, -1, 1>>
    /\ [k \in 1..Len(main_basis) |-> main_basis[k].index] = <<0, 1, 2, 4, 3, 5, 6, 7>>
    /\ main_basis[6].scalar = -1

\* ------------------------------------------------------------ C4

\* C4 as stated: dual(dual(e)) has the index of e, and its scalar is e.scalar
\* times one sign that is the same for every blade e of the algebra, whatever
\* its grade.
C4_DualTwiceOneSign ==
    applied = <<"Dual", "Dual">> =>
        \E sign \in {-1, 1} :
            \A k \in 1..Len(involution) :
                /\ involution[k][2].index = involution[k][1].index
                /\ involution[k][2].scalar = sign * involution[k][1].scalar

\* C4, amended: dual(dual(e)) has the index of e, and its scalar is e.scalar
\* times (-1)^(g * (n - g)), g the grade of e and n the number of generators:
\* +1 for every blade when n is odd, -1 for the blades of odd grade when n is even.
C4_DualTwiceGradeSign ==
    applied = <<"Dual", "Dual">> =>
        LET n == Len(generator_squares)
        IN  \A k \in 1..Len(involution) :
                LET e == involution[k][1]
                    g == RefGrade(e)
                IN  /\ involution[k][2].index = e.index
                    /\ involution[k][2].scalar = e.scalar * Sign(g * (n - g))
                    /\ (n % 2 = 1) => involution[k][2] = e
                    /\ (n % 2 = 0 /\ g % 2 = 1) => involution[k][2].scalar = - e.scalar

\* Two generators: the scalar blade comes back as itself, e0 comes back negated.
C4_Witness ==
    /\ applied = <<"Dual", "Dual">>
    /\ Len(generator_squares) = 2
    /\ involution[1] = << from_index(0), from_index(0) >>
    /\ involution[2] = << from_index(1), [scalar |-> -1, index |-> 1] >>

\* ------------------------------------------------------------ C9

\* C9: applying Reversal twice is the identity: negating the output of the
\* Reversal involution with the Reversal grade predicate maps every basis
\* blade to itself, index and scalar.
C9_ReversalTwice ==
    applied = <<"Reversal", "Reversal">> =>
        /\ Len(involution) = 2^Len(generator_squares)
        /\ \A k \in 1..Len(involution) : involution[k][2] = involution[k][1]

\* Three generators: the blades of grade 2 and 3 were negated twice.
C9_Witness ==
    /\ applied = <<"Reversal", "Reversal">>
    /\ Len(generator_squares) = 3
    /\ \E k \in 1..Len(involution) :
           /\ RefGrade(involution[k][1]) = 2
           /\ involution[k][1].scalar = -1
           /\ involution[k][2] = involution[k][1]
    /\ \E k \in 1..Len(involution) :
           /\ RefGrade(involution[k][1]) = 3
           /\ involution[k][2] = involution[k][1]

\* ------------------------------------------------------------ C8

\* The terms of the entry called name in a sequence of <<name, terms>>.
Named(list, name) ==
    list[CHOOSE k \in 1..Len(list) : list[k][1] = name][2]

\* The canonical basis blades of the algebra.
CanonicalBasis == Range(basis(generator_squares))

\* Whether the involution called name negates the grade g.
Negates(name, g) ==
    CASE name = "Neg" -> TRUE
      [] name = "Automorphism" -> g % 2 = 1
      [] name = "Reversal" -> g % 4 \in {2, 3}
      [] name = "Conjugation" -> g % 4 \in {1, 2}

\* C8: Involution::involutions returns five maps, each with exactly one entry
\* per canonical basis blade; Neg, Automorphism, Reversal and Conjugation map a
\* blade of grade g to itself with its scalar negated exactly when, in turn:
\* always; g is odd; g mod 4 is 2 or 3; (g + 3) mod 4 < 2; and Dual maps each
\* blade to its BasisElement::dual.
C8_Involutions ==
    involutions # <<>> =>
        /\ [k \in 1..Len(involutions) |-> involutions[k][1]]
               = <<"Neg", "Automorphism", "Reversal", "Conjugation", "Dual">>
        /\ \A m \in 1..Len(involutions) :
               LET name == involutions[m][1]
                   terms == involutions[m][2]
               IN  /\ Len(terms) = 2^Len(generator_squares)
                   /\ { terms[k][1] : k \in 1..Len(terms) } = CanonicalBasis
                   /\ { terms[k][1].index : k \in 1..Len(terms) }
                          = 0..(2^Len(generator_squares) - 1)
                   /\ \A k \in 1..Len(terms) :
                          LET key == terms[k][1]
                              value == terms[k][2]
                          IN  IF name = "Dual"
                              THEN value = dual(key, generator_squares)
                              ELSE /\ value.index = key.index
                                   /\ value.scalar =
                                          IF Negates(name, RefGrade(key))
                                          THEN - key.scalar ELSE key.scalar

\* Three generators: Reversal and Conjugation differ on the grades 1 and 3,
\* and the Dual of e0 is e12.
C8_Witness ==
    /\ pc = "involutions"
    /\ generator_squares = <<1, 0, -1>>
    /\ Named(involutions, "Reversal")[2] = << from_index(1), from_index(1) >>
    /\ Named(involutions, "Conjugation")[2] = << from_index(1), [scalar |-> -1, index |-> 1] >>
    /\ Named(involutions, "Reversal")[8] = << from_index(7), [scalar |-> -1, index |-> 7] >>
    /\ Named(involutions, "Conjugation")[8] = << from_index(7), from_index(7) >>
    /\ Named(involutions, "Dual")[2] = << from_index(1), from_index(6) >>

\* ------------------------------------------------------------ C5

Term(a, b) ==
    [product  |-> product(a, b, generator_squares), factor_a |-> a, factor_b |-> b]

\* The full geometric-product table over the canonical basis, zero terms left out.
Table ==
    { t \in { Term(a, b) : a \in CanonicalBasis, b \in CanonicalBasis } :
          t.product.scalar # 0 }

\* The terms of table whose grades (of a, of b, of the product) satisfy keep.
Where(table, keep(_, _, _)) ==
    { t \in table : keep(RefGrade(t.factor_a), RefGrade(t.factor_b), RefGrade(t.product)) }

Terms(name) == Range(Named(products, name))


\* C5: GeometricProduct holds exactly the terms (a, b, product(a, b)) over all
\* pairs of canonical basis blades with a nonzero product scalar; OuterProduct,
\* InnerProduct, LeftContraction, RightContraction and ScalarProduct hold exactly
\* the terms of it whose result grade is grade(a) + grade(b), |grade(a) - grade(b)|,
\* grade(b) - grade(a), grade(a) - grade(b) and 0; no term of the seven products
\* has a zero product scalar.
C5_NamedProducts ==
    products # <<>> =>
        LET table == Table
        IN  /\ [k \in 1..Len(products) |-> products[k][1]] = ProductNames
            /\ Terms("GeometricProduct") = table
            /\ Len(Named(products, "GeometricProduct")) = Cardinality(table)
            /\ Terms("OuterProduct") = Where(table, LAMBDA r, s, t : t = r + s)
            /\ Terms("InnerProduct") =
                   Where(table, LAMBDA r, s, t : t = (IF r < s THEN s - r ELSE r - s))
            /\ Terms("LeftContraction") = Where(table, LAMBDA r, s, t : t = s - r)
            /\ Terms("RightContraction") = Where(table, LAMBDA r, s, t : t = r - s)
            /\ Terms("ScalarProduct") = Where(table, LAMBDA r, s, t : t = 0)
            /\ \A k \in 1..Len(products) :
                   \A t \in Range(products[k][2]) : t.product.scalar # 0

\* A degenerate generator: the table has fewer than 8 * 8 terms, e0 * e0 is not
\* in it, and the two contractions differ.
C5_Witness ==
    /\ pc = "products"
    /\ generator_squares = <<0, 1, -1>>
    /\ Cardinality(Terms("GeometricProduct")) < 64
    /\ \A t \in Terms("GeometricProduct") :
           ~ (t.factor_a.index = 1 /\ t.factor_b.index = 1)
    /\ Term(from_index(2), from_index(2)) \in Terms("ScalarProduct")
    /\ Terms("LeftContraction") # Terms("RightContraction")
    /\ Terms("OuterProduct") # {}

\* ------------------------------------------------------------ C6

\* C6 as stated: the seven named products are pairwise disjoint sets of terms,
\* and each of them is a subset of the full geometric-product table.
C6_DisjointSubsets ==
    products # <<>> =>
        LET table == Table
        IN  /\ \A i, j \in 1..Len(products) :
                   i # j => Range(products[i][2]) \cap Range(products[j][2]) = {}
            /\ \A i \in 1..Len(products) : Range(products[i][2]) \subseteq table

\* The term whose two factors and product are the scalar blade 1.
UnitTerm == Term(from_index(0), from_index(0))

\* C6, amended: each named product other than RegressiveProduct is a subset of
\* the full geometric-product table (GeometricProduct is all of it); these six
\* are not pairwise disjoint, the term 1 * 1 = 1 belonging to each of them;
\* RegressiveProduct shares no term with the table, hence with none of the
\* other six, in an algebra with at least one generator.
C6_SubsetsOfTable ==
    products # <<>> =>
        LET table == Table
        IN  /\ \A i \in 1..Len(products) :
                   products[i][1] # "RegressiveProduct" =>
                       /\ Range(products[i][2]) \subseteq table
                       /\ UnitTerm \in Range(products[i][2])
            /\ Terms("GeometricProduct") = table
            /\ Len(generator_squares) >= 1 => Terms("RegressiveProduct") \cap table = {}

\* Three generators: ScalarProduct lies inside InnerProduct, and the regressive
\* term e01 v e12 = e1 is no term of the table.
C6_Witness ==
    /\ pc = "products"
    /\ generator_squares = <<1, 1, 1>>
    /\ Terms("ScalarProduct") \subseteq Terms("InnerProduct")
    /\ Terms("ScalarProduct") # Terms("InnerProduct")
    /\ \E t \in Terms("RegressiveProduct") :
           /\ t.factor_a.index = 3
           /\ t.factor_b.index = 6
           /\ t.product.index = 2
           /\ t \notin Table

\* ------------------------------------------------------------ C7

DualTerm(t) ==
    [product  |-> dual(t.product, generator_squares),
     factor_a |-> dual(t.factor_a, generator_squares),
     factor_b |-> dual(t.factor_b, generator_squares)]

AllGenerators == 0..(Len(generator_squares) - 1)

\* The metric of the same number of generators whose squares are all 1.
Euclidean == [i \in 1..Len(generator_squares) |-> 1]

\* The terms Product::products gives RegressiveProduct under the metric Euclidean.
EuclideanRegressive ==
    Range(Product_dual(projected(Product_new(basis(Euclidean), basis(Euclidean), Euclidean),
                                 outer_grades),
                       Euclidean))

\* The pairs of blade indices that together cover every generator.
CoveringPairs ==
    { ab \in (0..(basis_size(generator_squares) - 1)) \X (0..(basis_size(generator_squares) - 1)) :
          Generators(ab[1]) \cup Generators(ab[2]) = AllGenerators }

\* C7: the terms of RegressiveProduct correspond one to one to the terms of
\* OuterProduct: (x, y, p) is an OuterProduct term iff (dual(x), dual(y), dual(p))
\* is a RegressiveProduct term. So a RegressiveProduct term with the factor
\* indices A and B exists exactly when A OR B covers all n generator bits, its
\* product index is A AND B, and the terms are the same for every metric.
C7_RegressiveFromOuter ==
    products # <<>> =>
        LET outer == Terms("OuterProduct")
            regressive == Terms("RegressiveProduct")
            units == Blades(generator_squares, UnitScalars)
        IN  /\ regressive = { DualTerm(t) : t \in outer }
            /\ Cardinality(regressive) = Cardinality(outer)
            /\ Len(Named(products, "RegressiveProduct")) = Cardinality(regressive)
            /\ \A x, y \in units :
                   dual(x, generator_squares) = dual(y, generator_squares) => x = y
            /\ \A t \in outer : {t.factor_a, t.factor_b, t.product} \subseteq units
            /\ { <<t.factor_a.index, t.factor_b.index>> : t \in regressive } = CoveringPairs
            /\ \A t \in regressive :
                   Generators(t.product.index) =
                       Generators(t.factor_a.index) \cap Generators(t.factor_b.index)
            /\ regressive = EuclideanRegressive

\* A degenerate and a negative generator: e01 v e12 is still there, with product e1.
C7_Witness ==
    /\ pc = "products"
    /\ generator_squares = <<0, -1, 1>>
    /\ Cardinality(Terms("RegressiveProduct")) = 27
    /\ \E t \in Terms("RegressiveProduct") :
           /\ t.factor_a.index = 3
           /\ t.factor_b.index = 6
           /\ t.product.index = 2
    /\ \E t \in Terms("RegressiveProduct") : t.product.scalar = -1

\* ------------------------------------------------------------ C11

\* The blade of generator number i, counted from 0.
Generator(i) == [scalar |-> 1, index |-> 2^i]

\* C11 as stated: parsing "-e13" against a 3-generator algebra returns the
\* blade of index bit0|bit2 whose scalar is the negation of the scalar of the
\* product of the first and the third generator.
C11_ParseOneBased ==
    (pc \in {"blade", "aborted"} /\ token = << "-", "e", "1", "3" >>
        /\ Len(generator_squares) = 3)
    => /\ parsed # Panic
       /\ parsed.index = 2^0 + 2^2
       /\ parsed.scalar = -(product(Generator(0), Generator(2), generator_squares).scalar)

\* C11, amended: the digits of a blade name count the generators from 0, so
\* "-e13" names the generators of bits 1 and 3.  Against an algebra of four or
\* more generators parse returns the blade of index bit1|bit3 whose scalar is
\* the negation of the scalar of the product of those two generators; against
\* a 3-generator algebra the digit 3 is out of range and parse aborts.
C11_ParseZeroBased ==
    (pc \in {"blade", "aborted"} /\ token = << "-", "e", "1", "3" >>)
    => IF Len(generator_squares) >= 4
       THEN /\ pc = "blade"
            /\ parsed.index = 2^1 + 2^3
            /\ parsed.scalar
                 = -(product(Generator(1), Generator(3), generator_squares).scalar)
            /\ parsed.scalar = -1
       ELSE pc = "aborted" /\ parsed = Panic

C11_Witness ==
    /\ pc = "blade"
    /\ token = << "-", "e", "1", "3" >>
    /\ Len(generator_squares) = 4
    /\ parsed = [scalar |-> -1, index |-> 10]

\* ------------------------------------------------------------ C12

HexValue(c) ==
    CASE c = "0" -> 0 [] c = "1" -> 1 [] c = "2" -> 2 [] c = "3" -> 3
      [] c = "4" -> 4 [] c = "5" -> 5 [] c = "6" -> 6 [] c = "7" -> 7
      [] c = "8" -> 8 [] c = "9" -> 9
      [] c \in {"a", "A"} -> 10 [] c \in {"b", "B"} -> 11 [] c \in {"c", "C"} -> 12
      [] c \in {"d", "D"} -> 13 [] c \in {"e", "E"} -> 14 [] c \in {"f", "F"} -> 15
      [] OTHER -> -1

\* The token without its leading sign.
Unsigned(name) == IF name # << >> /\ Head(name) = "-" THEN Tail(name) ELSE name

NoBladeSyntax(name) ==
    Unsigned(name) # << "1" >> /\ (Unsigned(name) = << >> \/ Head(Unsigned(name)) # "e")
NotHexAfterE(name) ==
    /\ Unsigned(name) # << >> /\ Head(Unsigned(name)) = "e"
    /\ \E i \in 2..Len(Unsigned(name)) : HexValue(Unsigned(name)[i]) = -1
DigitOutOfRange(name, algebra) ==
    /\ Unsigned(name) # << >> /\ Head(Unsigned(name)) = "e"
    /\ \E i \in 2..Len(Unsigned(name)) : HexValue(Unsigned(name)[i]) >= Len(algebra)

\* C12: parse aborts, and returns no blade, for every malformed blade name: a
\* name that (after an optional leading '-') is not "1" and does not start
\* with 'e', a name with a character after the 'e' that is no hexadecimal
\* digit, and a name with a generator digit that is not below the number of
\* generators.
C12_MalformedAborts ==
    (pc \in {"blade", "aborted"}
        /\ (\/ NoBladeSyntax(token)
            \/ NotHexAfterE(token)
            \/ DigitOutOfRange(token, generator_squares)))
    => pc = "aborted" /\ parsed = Panic

C12_Witness ==
    /\ pc = "aborted"
    /\ parsed = Panic
    /\ token = << "e", "1", "g" >>
    /\ Len(generator_squares) = 3

\* ------------------------------------------------------------ C20

\* C20: the printed Cayley table has one line per blade of sorted_basis() and
\* one cell per blade of sorted_basis() in each line, and the cell of line r
\* and column c renders product(r, c): the blade of the line is the left factor.
C20_RowTimesColumn ==
    pc = "printed"
    => /\ Len(cayley) = Len(main_basis)
       /\ main_basis = sorted_basis(generator_squares)
       /\ \A r \in 1..Len(cayley) :
             /\ Len(cayley[r]) = Len(main_basis)
             /\ \A c \in 1..Len(main_basis) :
                   cayley[r][c]
                     = fmt(product(main_basis[r], main_basis[c], generator_squares),
                           Len(generator_squares) + 2) \o << " " >>

\* ------------------------------------------------------------ C13

\* The signatures of the classes explored, and one no such class has.
Signatures == { signature(class) : class \in RegistryClasses } \cup { << 7 >> }

\* The positions of the classes registered with the signature.
RegisteredAs(sig) == { k \in 1..Len(registered) : signature(registered[k]) = sig }

Max(S) == CHOOSE x \in S : \A y \in S : y <= x

\* C13: after any sequence of register calls, get(s) returns the class most
\* recently registered with the signature s, and not-found when no registered
\* class has it; the classes list holds every registered class, those of a
\* repeated signature included, in registration order.
C13_LastRegisteredWins ==
    pc = "registry"
    => /\ classes = registered
       /\ \A sig \in Signatures :
             get(sig, classes, index_by_signature)
               = IF RegisteredAs(sig) = {} THEN NotFound
                 ELSE registered[Max(RegisteredAs(sig))]

C13_Witness ==
    /\ pc = "registry"
    /\ Len(registered) = 3
    /\ registered[1].class_name = "Rotor"
    /\ registered[2].class_name = "Scalar"
    /\ registered[3].class_name = "Even"
    /\ get(<< 0, 3, 5, 6 >>, classes, index_by_signature).class_name = "Even"
    /\ get(<< 1, 2, 4 >>, classes, index_by_signature) = NotFound

\* ---------------------------------------------------------------------------
\* C14.  The operations derived for a single class Rotor on G3.
\* ---------------------------------------------------------------------------

\* The names in the per-class table of the class named n, once it is stored.
Derived(n) ==
    IF n \in DOMAIN trait_implementations THEN DOMAIN trait_implementations[n].single ELSE { }

Recorded(name, a, b) ==
    /\ a \in DOMAIN trait_implementations
    /\ b \in DOMAIN trait_implementations[a].pair
    /\ name \in DOMAIN trait_implementations[a].pair[b].traits

\* The operation name of the classes named a and b was written by the emitter.
Emitted(name, a, b) ==
    \E k \in 1..Len(emitted) :
        /\ emitted[k].name = name
        /\ Len(emitted[k].parameters) = 2
        /\ emitted[k].parameters[1].class_name = a
        /\ emitted[k].parameters[2].class_name = b

ScalarPartner(n) ==
    \E m \in DOMAIN trait_implementations[n].pair :
        /\ is_scalar(trait_implementations[n].pair[m].parameter)
        /\ "GeometricProduct" \in DOMAIN trait_implementations[n].pair[m].traits

C17_SentinelOmitted ==
    /\ \A n \in DOMAIN trait_implementations :
          /\ \A name \in DOMAIN trait_implementations[n].single :
                trait_implementations[n].single[name] # AstNone
          /\ \A m \in DOMAIN trait_implementations[n].pair :
                \A name \in DOMAIN trait_implementations[n].pair[m].traits :
                    trait_implementations[n].pair[m].traits[name] # AstNone
    /\ \A k \in 1..Len(emitted) : emitted[k] # AstNone
    /\ pc = "aborted" => classes = << >>

\* ---------------------------------------------------------------------------
\* C18.  Keys written once, operations emitted once.
\* ---------------------------------------------------------------------------

\* C18: during the pass no key of a per-class, per-pair or class table is
\* written twice, and no operation is handed to the emitter twice.
C18_WrittenOnce ==
    /\ \A k, l \in 1..Len(written) : written[k] = written[l] => k = l
    /\ \A k, l \in 1..Len(emitted) : emitted[k] = emitted[l] => k = l

\* ---------------------------------------------------------------------------
\* C19.  The order of the loops.
\* ---------------------------------------------------------------------------

\* The pairs of class names in registration order, outer loop first.
RegistrationOrder(phase) ==
    flatten([i \in 1..Len(classes) |->
                [j \in 1..Len(classes) |->
                    << phase, classes[i].class_name, classes[j].class_name >>]])

\* C19: in every phase of a completed pass (the pairs, the magnitudes, the
\* scale, signum and inverse, the final pass) the pairs (A, B) are visited in
\* registration order of A and, within A, registration order of B.
C19_RegistrationOrder ==
    pc = "done"
        => \A phase \in { "pair", "magnitude", "scale", "final" } :
               SelectSeq(visited, LAMBDA visit : visit[1] = phase) = RegistrationOrder(phase)

\* ---------------------------------------------------------------------------
\* C25.  The Dual involution and the canonical basis.
\* ---------------------------------------------------------------------------

\* The canonical blade of the complementary index.
Complement(e) ==
    basis(generator_squares)[(2^Len(generator_squares) - 1 - e.index) + 1]

\* C25 as stated: the Dual involution maps the canonical blade of every index
\* onto the canonical blade of the complementary index, index and scalar.
C25_DualOntoCanonical ==
    involutions # <<>> =>
        \A k \in 1..Len(Named(involutions, "Dual")) :
            Named(involutions, "Dual")[k][2] = Complement(Named(involutions, "Dual")[k][1])

\* C25, amended: the Dual of the canonical blade e of grade g, in an algebra
\* of n generators, has the complementary index; it is the canonical blade of
\* that index when the complement comes before e in the canonical order, and
\* that blade times (-1)^(g * (n - g)) otherwise.  So Dual maps canonical
\* blades onto canonical blades when n is odd, and when n is even it negates
\* the canonical complement of each blade of odd grade that comes before its
\* complement.
C25_DualUpToGradeSign ==
    involutions # <<>> =>
        LET n == Len(generator_squares)
            terms == Named(involutions, "Dual")
        IN  \A k \in 1..Len(terms) :
                LET e == terms[k][1]
                    g == RefGrade(e)
                    target == Complement(e)
                IN  /\ terms[k][2].index = target.index
                    /\ terms[k][2].scalar =
                          IF CanonicallyBefore(target, e) THEN target.scalar
                          ELSE target.scalar * Sign(g * (n - g))
                    /\ (n % 2 = 1) => terms[k][2] = target
                    /\ (n % 2 = 0 /\ g % 2 = 1 /\ ~CanonicallyBefore(target, e))
                          => terms[k][2].scalar = - target.scalar

\* Two generators: the canonical basis holds -e1, and the Dual of e0 is +e1.
C25_Witness ==
    /\ pc = "involutions"
    /\ generator_squares = << 1, 1 >>
    /\ basis(generator_squares)[3] = [scalar |-> -1, index |-> 2]
    /\ Named(involutions, "Dual")[2] = << from_index(1), from_index(2) >>

\* ---------------------------------------------------------------------------
\* C26.  BasisElement::cmp as a total order.
\* ---------------------------------------------------------------------------

\* The generator numbers of a blade, ascending.
GeneratorList(e) == component_bits(e)

\* The sequence x is lexicographically smaller than the sequence y.
LexLess(x, y) ==
    \E k \in 1..Len(x) :
        /\ \A l \in 1..(k - 1) : l <= Len(y) /\ x[l] = y[l]
        /\ k <= Len(y)
        /\ x[k] < y[k]

\* C26: cmp(a, b) is Equal exactly when a and b have the same index, Less
\* exactly when cmp(b, a) is Greater, transitive, and within one grade Less
\* exactly when a's ascending generator numbers are lexicographically smaller.
C26_LawfulOrder ==
    pc = "compared" =>
        /\ ordering.ab = "Equal" <=> factor_a.index = factor_b.index
        /\ ordering.ab = "Less" <=> ordering.ba = "Greater"
        /\ (ordering.ab = "Less" /\ ordering.bc = "Less") => ordering.ac = "Less"
        /\ RefGrade(factor_a) = RefGrade(factor_b)
              => (ordering.ab = "Less"
                     <=> LexLess(GeneratorList(factor_a), GeneratorList(factor_b)))

\* ---------------------------------------------------------------------------
\* C27.  The scalar of a parsed blade.
\* ---------------------------------------------------------------------------

\* C27: every blade BasisElement::parse returns for a token it accepts has
\* scalar +1 or -1, whatever digits the token repeats and whatever the metric.
C27_ParsedUnitScalar ==
    pc = "blade" => parsed.scalar \in { -1, 1 }

\* ---------------------------------------------------------------------------
\* C28.  Reversal and the geometric product.
\* ---------------------------------------------------------------------------

\* The Reversal involution applied to one blade.
Reversal(e) == negated(<< << e, e >> >>, reversal_grades)[1][2]

\* The blade is the one basis() yields for its index.
Canonical(e) == e = basis_element(e.index, generator_squares)

\* C28: for all canonical basis blades a and b, the Reversal of product(a, b)
\* is product(Reversal(b), Reversal(a)), index and scalar, whatever the metric.
C28_ReversalAntiAutomorphism ==
    (pc = "multiplied" /\ Canonical(factor_a) /\ Canonical(factor_b))
        => Reversal(result)
              = product(Reversal(factor_b), Reversal(factor_a), generator_squares)

\* e0 times e1 on three Euclidean generators: e01 reversed is -e01 = e1 e0.
C28_Witness ==
    /\ pc = "multiplied"
    /\ generator_squares = << 1, 1, 1 >>
    /\ factor_a = from_index(1) /\ Canonical(factor_a)
    /\ factor_b = from_index(2) /\ Canonical(factor_b)
    /\ result = from_index(3)
    /\ Reversal(result) = [scalar |-> -1, index |-> 3]

\* ---------------------------------------------------------------------------
\* C29.  InnerProduct, the contractions and ScalarProduct.
\* ---------------------------------------------------------------------------

\* C29: the terms of InnerProduct are those of LeftContraction together with
\* those of RightContraction, the terms of ScalarProduct are those the two
\* contractions share, and the factors of a ScalarProduct term have one index.
C29_InnerIsUnionOfContractions ==
    products # <<>> =>
        /\ Terms("InnerProduct") = Terms("LeftContraction") \cup Terms("RightContraction")
        /\ Terms("ScalarProduct") = Terms("LeftContraction") \cap Terms("RightContraction")
        /\ \A term \in Terms("ScalarProduct") : term.factor_a.index = term.factor_b.index

\* Two Euclidean generators: e0 into e01 is a left contraction only, e01 onto
\* e0 a right contraction only, e0 times e0 is in both and in ScalarProduct.
C29_Witness ==
    /\ pc = "products"
    /\ generator_squares = << 1, 1 >>
    /\ \E term \in Terms("LeftContraction") \ Terms("RightContraction") :
          term.factor_a.index = 1 /\ term.factor_b.index = 3
    /\ \E term \in Terms("RightContraction") \ Terms("LeftContraction") :
          term.factor_a.index = 3 /\ term.factor_b.index = 1
    /\ \E term \in Terms("ScalarProduct") :
          term.factor_a.index = 1 /\ term.factor_b.index = 1

\* ---------------------------------------------------------------------------
\* C30
\* ---------------------------------------------------------------------------

\* C30: for every class with non-empty groups the Rust renderer writes, the
\* INDEX_REMAP constant has one entry per blade, the entries increase
\* strictly, every entry is below the length N of the `elements` array, N is
\* the sum of the group widths, and the constructor lists N elements.
C30_RemapWithinElements ==
    (pc = "defined" /\ definition.written) =>
        LET remap == definition.index_remap
        IN  /\ Len(remap) = Len(flatten(definition.class.grouped_basis))
            /\ Len(remap) = definition.element_count
            /\ \A k \in 1..(Len(remap) - 1) : remap[k] < remap[k + 1]
            /\ \A k \in 1..Len(remap) : remap[k] < definition.elements
            /\ definition.elements = fold_sum(simd_widths(definition.class))
            /\ Len(definition.constructor) = definition.elements

\* ---------------------------------------------------------------------------
\* C22
\* ---------------------------------------------------------------------------

\* C22: for every generator count n from 0 to 16, basis() enumerates 2^n
\* blades, and dual and product of a blade with an n-bit index complete
\* without arithmetic or shift overflow.
C22_SixteenGenerators ==
    pc = "enumerated" =>
        /\ wide.count = 2^Len(generator_squares)
        /\ ~wide.dual_overflow
        /\ ~wide.shift_overflow

\* ---------------------------------------------------------------------------
\* C23.  When the final pass derives Transformation.
\* ---------------------------------------------------------------------------

\* The name of the result class of the recorded GeometricProduct of the
\* classes named a and b.
ProductResult(a, b) ==
    trait_implementations[a].pair[b].traits["GeometricProduct"].result.class_name

\* GeometricProduct(A, B) is recorded with a result class C, and
\* GeometricProduct(C, A) is recorded.
ProductChain(a, b) ==
    /\ Recorded("GeometricProduct", a, b)
    /\ Recorded("GeometricProduct", ProductResult(a, b), a)

\* The chain of a and b loops back: the result class D of the second product
\* is the class named b, or Into from D to b is recorded.
LoopsBack(a, b) ==
    LET d == ProductResult(ProductResult(a, b), a)
    IN  d = b \/ Recorded("Into", d, b)

RECURSIVE PassOutput(_, _, _, _)
PassOutput(list, i, table, out) ==
    IF i > Len(list)
    THEN emit(out, flatten([k \in 1..Len(final_pairs(table)) |->
                               final_nodes(final_pairs(table)[k][1], final_pairs(table)[k][2],
                                           table)]))
    ELSE LET done == class_pass(i, list)
         IN  IF Len(ran(done.steps)) < Len(done.steps)
             THEN emit(out, of_kind(done.steps, "emit"))
             ELSE PassOutput(list, i + 1,
                             insert(table, done.entry.parameter.class_name, done.entry),
                             emit(out, of_kind(done.steps, "emit")))

\* The classes of list in every order.
Reorderings(list) ==
    { [k \in 1..Len(list) |-> list[p[k]]] :
        p \in { q \in [1..Len(list) -> 1..Len(list)] :
                  \A k, l \in 1..Len(list) : q[k] = q[l] => k = l } }

\* The classes of list have pairwise distinct names and signatures.
DistinctClasses(list) ==
    \A k, l \in 1..Len(list) :
        k # l => /\ list[k].class_name # list[l].class_name
                 /\ signature(list[k]) # signature(list[l])

\* Every GeometricQuotient(A, B) with GeometricProduct(A, B) recorded and
\* Inverse in the table of B is written, unless its step yields the sentinel.
QuotientsWritten ==
    \A a \in DOMAIN trait_implementations, b \in DOMAIN trait_implementations :
        (Recorded("GeometricProduct", a, b) /\ "Inverse" \in Derived(b))
            => Emitted("GeometricQuotient", a, b)

\* C24: for classes with pairwise distinct names and signatures, a pass that
\* has ended wrote the same set of operations as the pass over the same
\* classes registered in any other order, and it wrote GeometricQuotient(A, B)
\* for every pair with GeometricProduct(A, B) recorded and Inverse in the
\* table of B.
C24_OrderIndependent ==
    (pc \in { "done", "aborted" } /\ classes # << >> /\ DistinctClasses(classes))
        => /\ \A other \in Reorderings(classes) :
                 Range(PassOutput(other, 1, << >>, << >>)) = Range(emitted)
           /\ (pc = "done" /\ oracle.sentinel # "GeometricQuotient") => QuotientsWritten

\* ---------------------------------------------------------------------------
\* C21
\* ---------------------------------------------------------------------------

\* C21: for every statement node and every expression variant of the IR,
\* rust::emit_code and glsl::emit_code return text and do not panic.
C21_RenderersTotal ==
    pc = "rendered" => ~rendering.rust.panic /\ ~rendering.glsl.panic

====
